---- MODULE Spec2Model ----
(***************************************************************************)
(* A model of the composables of this repository: useFullscreen,           *)
(* useElementHover, useClipboard, useBrowserLocation, useNetwork,          *)
(* useCssVar and useActiveElement.  Each composable is an independent      *)
(* state machine over its own variables; each has a specification of its   *)
(* own (SpecFullscreen, SpecHover, ...), in which the variables of the     *)
(* other composables stay parked at one fixed value.                       *)
(*                                                                         *)
(* JavaScript is single threaded: a task (an event handler, a timer        *)
(* callback, a call made by the application) runs to completion, and the   *)
(* microtasks it leaves (continuations of awaits, deferred watcher         *)
(* callbacks) run before the next task.  The actions below are the tasks   *)
(* and microtasks; a guard such as ~FsMicrotaskPending keeps a task from   *)
(* running while a microtask is still queued.                              *)
(***************************************************************************)
EXTENDS Integers, Sequences, FiniteSets, TLC

VARIABLES
    \* ---- useFullscreen (src/unnamed/part_002)
    fsProfile,      \* which fullscreen API family the platform exposes
    fsTargetSet,    \* whether targetRef.value is an element
    fsStack,        \* the platform's fullscreen elements, top last
    fsEvents,       \* change events dispatched and not yet handled
    isFullscreen,   \* the controller's reactive flag
    fsCall,         \* per caller: the enter()/exit()/toggle() call in progress
    fsLast,         \* the step just taken, for the handler's frame condition
    \* ---- useElementHover (src/unnamed/part_001)
    hvDelayEnter,   \* options.delayEnter
    hvDelayLeave,   \* options.delayLeave
    hvRemoval,      \* options.triggerOnRemoval
    isHovered,      \* the reactive hover state
    hvTimer,        \* the variable `timer`: <<>> for undefined, or <<t>>, the handle of timer t
    hvPending,      \* the timers the platform holds for setTimeout and has not run
    hvNow,          \* the time, in ms
    hvLast,         \* the last event handled and its time
    \* ---- useClipboard (src/packages/core/useClipboard/index.ts)
    clApi,          \* 'clipboard' in navigator
    clLegacy,       \* options.legacy
    clPermWrite,    \* the state of the clipboard-write permission
    clDuring,       \* options.copiedDuring
    clText,         \* the tracked text
    copied,         \* the transient flag
    clTimeout,      \* the reset timer: pending or not, and when it is due
    clBoard,        \* the platform's clipboard
    clCall,         \* per caller: the copy() call in progress
    clNow,          \* the time, in ms
    clPath,         \* how the copy that completed last was made
    clEntry,        \* the call of copy() just made: its input and what it found
    clLast,         \* the last copy that completed: its time and value
    \* ---- useBrowserLocation (src/packages/core/useBrowserLocation/index.ts)
    lcLoc,          \* window.location, per writable property
    lcRefs,         \* refs: the reactive field per writable property
    lcWatched,      \* per field, the value its watcher saw last
    lcQueue,        \* the fields whose watcher is queued for the next flush
    lcEvents,       \* popstate/hashchange events dispatched and not yet handled
    lcTrigger,      \* state.value.trigger
    lcHistory,      \* window.history: its state and length
    lcOrigin,       \* window.location.origin
    lcState,        \* state.value: its state, length and origin
    lcLast,         \* the step just taken
    \* ---- useNetwork (src/packages/core/useBrowserLocation/index.ts, from line 191)
    nwWindow,       \* whether there is a window (and so a navigator)
    nwConn,         \* 'connection' in navigator
    nwConnInfo,     \* which values navigator.connection holds
    nwOnLine,       \* navigator.onLine
    nw,             \* the reactive state: isOnline, offlineAt, onlineAt and the quality fields
    nwEvents,       \* online/offline/change events dispatched and not yet handled
    nwNow,          \* Date.now()
    nwLast,         \* the listener that ran last, and when
    \* ---- useCssVar (src/unnamed/part_003)
    cvInitial,      \* option initialValue
    cvObserve,      \* option observe
    cvSheet,        \* what the style sheets give each element for each property
    cvTarget,       \* the element the target resolves to, or null
    cvProp,         \* toValue(prop)
    variable,       \* the bound value
    cvInline,       \* the elements' inline styles ("" where a property is absent)
    cvReadOld,      \* [elRef, prop] as the first watcher saw them last
    cvWriteOld,     \* [variable, elRef] as the second watcher saw them last
    cvJobs,         \* watcher jobs queued for the flush, in order
    cvMicro,        \* microtasks queued, in order
    cvChanges,      \* how many changes the current task has made that wait for the microtasks
    cvLast,         \* the step just taken
    cvTrail,        \* the last changes from outside and the callbacks run since
    \* ---- useActiveElement (src/unnamed/part_000)
    aeDeep,         \* option deep
    aeRemoval,      \* option triggerOnRemoval
    aeFocus,        \* the element that has the focus ("body" when none has)
    aeTransit,      \* the element the focus is moving to, between blur and focus
    aeWinFocused,   \* whether the window has the focus
    activeElement,  \* the tracked element
    aeLast,         \* the step just taken
    \* ---- useFavicon (src/unnamed/part_004)
    fvDocument,     \* whether there is a document
    fvBaseUrl,      \* option baseUrl
    fvRel,          \* option rel
    fvHead,         \* the link elements of document.head, in document order
    favicon,        \* the value of the ref `favicon`
    fvSeen,         \* the value the watcher saw last
    fvQueued,       \* whether the watcher is queued for the next flush
    fvCreated,      \* how many link elements applyIcon has created
    fvLast          \* what the watcher's callback did when it ran last

fsVars == <<fsProfile, fsTargetSet, fsStack, fsEvents, isFullscreen, fsCall, fsLast>>

hvVars == <<hvDelayEnter, hvDelayLeave, hvRemoval, isHovered, hvTimer, hvPending,
            hvNow, hvLast>>

clVars == <<clApi, clLegacy, clPermWrite, clDuring, clText, copied, clTimeout,
            clBoard, clCall, clNow, clLast, clPath, clEntry>>

lcVars == <<lcLoc, lcRefs, lcWatched, lcQueue, lcEvents, lcTrigger, lcHistory,
           lcOrigin, lcState, lcLast>>

nwVars == <<nwWindow, nwConn, nwConnInfo, nwOnLine, nw, nwEvents, nwNow, nwLast>>

cvVars == <<cvInitial, cvObserve, cvSheet, cvTarget, cvProp, variable, cvInline,
           cvReadOld, cvWriteOld, cvJobs, cvMicro, cvChanges, cvLast,
           cvTrail>>

aeVars == <<aeDeep, aeRemoval, aeFocus, aeTransit, aeWinFocused, activeElement, aeLast>>

fvVars == <<fvDocument, fvBaseUrl, fvRel, fvHead, favicon, fvSeen, fvQueued,
           fvCreated, fvLast>>

vars == <<fsVars, hvVars, clVars, lcVars, nwVars, cvVars, aeVars, fvVars>>

\* what a specification leaves alone
fsOthers == <<hvVars, clVars, lcVars, nwVars, cvVars, aeVars, fvVars>>

hvOthers == <<fsVars, clVars, lcVars, nwVars, cvVars, aeVars, fvVars>>

clOthers == <<fsVars, hvVars, lcVars, nwVars, cvVars, aeVars, fvVars>>

lcOthers == <<fsVars, hvVars, clVars, nwVars, cvVars, aeVars, fvVars>>

nwOthers == <<fsVars, hvVars, clVars, lcVars, cvVars, aeVars, fvVars>>

cvOthers == <<fsVars, hvVars, clVars, lcVars, nwVars, aeVars, fvVars>>

aeOthers == <<fsVars, hvVars, clVars, lcVars, nwVars, cvVars, fvVars>>

fvOthers == <<fsVars, hvVars, clVars, lcVars, nwVars, cvVars, aeVars>>

\* JavaScript's undefined and null, as values of platform properties.
Undefined == "undefined"
Null == "null"

Min(S) == CHOOSE x \in S : \A y \in S : x <= y

(***************************************************************************)
(*                            useFullscreen                                *)
(***************************************************************************)

\* ---- bounds
MaxPendingEvents == 2

\* The application code that calls the controller: one script, which awaits
\* each call before it makes the next.
Callers == {"script"}

\* Two pieces of application code (two event listeners, say) that call the
\* same controller without waiting for each other's calls.
Scripts == {"script", "listener"}

\* ---- the vendor-prefixed name tables, in the source's priority order
eventHandlers ==
    <<"fullscreenchange", "webkitfullscreenchange", "webkitendfullscreen",
      "mozfullscreenchange", "MSFullscreenChange">>

RequestNames ==
    <<"requestFullscreen", "webkitRequestFullscreen", "webkitEnterFullscreen",
      "webkitEnterFullScreen", "webkitRequestFullScreen", "mozRequestFullScreen",
      "msRequestFullscreen">>

ExitNames ==
    <<"exitFullscreen", "webkitExitFullscreen", "webkitExitFullScreen",
      "webkitCancelFullScreen", "mozCancelFullScreen", "msExitFullscreen">>

EnabledNames ==
    <<"fullScreen", "webkitIsFullScreen", "webkitDisplayingFullscreen",
      "mozFullScreen", "msFullscreenElement">>

ElementNames ==
    <<"fullscreenElement", "webkitFullscreenElement", "mozFullScreenElement",
      "msFullscreenElement">>

SeqRange(s) == {s[i] : i \in 1..Len(s)}

\* ---- the platform: which names the document and the target expose.
\* "blink": a Chromium-family browser, any element as target.
\* "gecko": a Firefox that only has the moz-prefixed family.
\* "iosVideo": Safari on the iPhone, a <video> as target: the API lives on the
\*             element alone, the document exposes none of the names.
\* "none": a platform without any fullscreen API.
\* (The ms-prefixed family belongs to browsers the reactivity framework does
\* not run on; request methods live on elements on every platform.)
FsProfiles == {"blink", "gecko", "iosVideo", "none"}

DocHas(p) ==
    CASE p = "blink" -> {"exitFullscreen", "webkitExitFullscreen", "webkitCancelFullScreen",
                         "webkitIsFullScreen", "fullscreenElement", "webkitFullscreenElement"}
      [] p = "gecko" -> {"mozCancelFullScreen", "mozFullScreen", "mozFullScreenElement"}
      [] OTHER -> {}

TgtHas(p) ==
    CASE p = "blink" -> {"requestFullscreen", "webkitRequestFullscreen", "webkitRequestFullScreen"}
      [] p = "gecko" -> {"mozRequestFullScreen"}
      [] p = "iosVideo" -> {"webkitEnterFullscreen", "webkitEnterFullScreen",
                            "webkitExitFullscreen", "webkitExitFullScreen",
                            "webkitDisplayingFullscreen"}
      [] OTHER -> {}

\* The names the target exposes: none while targetRef.value is no element.
TargetNames == IF fsTargetSet THEN TgtHas(fsProfile) ELSE {}

\* targetRef.value
targetRef == IF fsTargetSet THEN "target" ELSE Null

\* The element the page shows in fullscreen (the top of the stack), or Null.
FsTop == IF fsStack = <<>> THEN Null ELSE fsStack[Len(fsStack)]

\* document[name] as the platform answers it: "true"/"false" for a flag, an
\* element or Null for an element property, "function" for a method.
DocValue(name) ==
    IF name \notin DocHas(fsProfile) THEN Undefined
    ELSE IF name \in SeqRange(ElementNames) THEN FsTop
    ELSE IF name \in SeqRange(EnabledNames)
         THEN (IF fsStack # <<>> THEN "true" ELSE "false")
    ELSE "function"

\* target[name]: on the iPhone the flag says whether this video is displayed
\* in fullscreen.
TgtValue(name) ==
    IF name \notin TargetNames THEN Undefined
    ELSE IF name \in SeqRange(EnabledNames)
         THEN (IF FsTop = "target" THEN "true" ELSE "false")
    ELSE "function"

\* [...].find(m => (document && m in document) || (targetRef.value && m in targetRef.value))
FindName(names) ==
    LET hits == {i \in 1..Len(names) :
                    names[i] \in DocHas(fsProfile) \cup TargetNames}
    IN  IF hits = {} THEN Undefined ELSE names[Min(hits)]

requestMethod == FindName(RequestNames)

exitMethod == FindName(ExitNames)

fullscreenEnabled == FindName(EnabledNames)

\* found on the document alone
fullscreenElementMethod ==
    LET hits == {i \in 1..Len(ElementNames) : ElementNames[i] \in DocHas(fsProfile)}
    IN  IF hits = {} THEN Undefined ELSE ElementNames[Min(hits)]

\* lines 133-138; a document exists in every modelled profile
isSupported ==
    /\ targetRef # Null
    /\ requestMethod # Undefined
    /\ exitMethod # Undefined
    /\ fullscreenEnabled # Undefined

isCurrentElementFullScreen ==
    IF fullscreenElementMethod # Undefined
    THEN DocValue(fullscreenElementMethod) = targetRef
    ELSE FALSE

isElementFullScreen ==
    IF fullscreenEnabled # Undefined
    THEN IF DocValue(fullscreenEnabled) \notin {Undefined, Null}
         THEN DocValue(fullscreenEnabled) = "true"
         ELSE IF TgtValue(fullscreenEnabled) \notin {Undefined, Null}
              THEN TgtValue(fullscreenEnabled) = "true"
              ELSE FALSE
    ELSE FALSE

\* ---- the calls in progress
FsOps == {"enter", "exit", "toggle"}

\* where a call waits for the platform to settle a promise
FsAwaiting == {"exit_wait", "request_wait"}

FsIdleCall ==
    [pc |-> "idle", op |-> "none", fn |-> "none", prev |-> "none",
     sup |-> FALSE, preFs |-> FALSE, prePage |-> Null, req |-> FALSE, ext |-> FALSE,
     over |-> FALSE]

FsOtherStep == [kind |-> "other", before |-> FALSE]

\* A continuation that runs before the next task: the caller's own, after a
\* call of its returned or threw, or enter()'s, after its `await exit()`
\* returned without suspending on the platform.
FsMicrotaskPending ==
    \E c \in DOMAIN fsCall : fsCall[c].pc \in {"returned", "threw", "microtask"}

\* The platform has resolved the promise a call awaits: the call goes on in
\* a microtask of that resolution, before any other task; only the change
\* event of the same transition may reach the listener before it.
FsResumePending ==
    \E c \in DOMAIN fsCall : fsCall[c].pc \in {"exit_resolved", "request_resolved"}

ExitReturnsEarly_IgnoresSupport == ~isFullscreen

\* exit(), line 172
ExitReturnsEarly == ~isSupported \/ ~isFullscreen

EnterReturnsEarly_IgnoresFlag == ~isSupported

\* enter(), line 197
EnterReturnsEarly == ~isSupported \/ isFullscreen

\* exit(), lines 175-187: the object whose exit method is called
ExitReceiver ==
    IF exitMethod = Undefined THEN "none"
    ELSE IF DocValue(exitMethod) \notin {Undefined, Null} THEN "document"
    ELSE IF TgtValue(exitMethod) \notin {Undefined, Null} THEN "target"
    ELSE "none"

\* enter(), line 206
TargetHasRequest ==
    requestMethod # Undefined /\ TgtValue(requestMethod) \notin {Undefined, Null}

\* exit() is over: its caller goes on, enter() (line 202) in a microtask
ExitSettled(rec) ==
    [rec EXCEPT !.pc = IF rec.fn = "enter" THEN "microtask" ELSE "returned"]

\* exit(), lines 170-192, up to its await
RunExit(c, rec) ==
    IF ExitReturnsEarly
    THEN /\ fsCall' = [fsCall EXCEPT ![c] = ExitSettled(rec)]
         /\ UNCHANGED isFullscreen
    ELSE IF ExitReceiver # "none"
         THEN /\ fsCall' = [fsCall EXCEPT ![c] = [rec EXCEPT !.pc = "exit_wait", !.ext = TRUE]]
              /\ UNCHANGED isFullscreen
         ELSE /\ fsCall' = [fsCall EXCEPT ![c] = ExitSettled(rec)]
              /\ isFullscreen' = FALSE

RunRequest_FlipsBeforeAwait(c, rec) ==
    /\ fsCall' = [fsCall EXCEPT ![c] =
                    IF TargetHasRequest
                    THEN [rec EXCEPT !.pc = "request_wait", !.req = TRUE]
                    ELSE [rec EXCEPT !.pc = "returned"]]
    /\ isFullscreen' = TargetHasRequest

\* enter(), lines 205-207: the request on the target
RunRequest(c, rec) ==
    /\ fsCall' = [fsCall EXCEPT ![c] =
                    IF TargetHasRequest
                    THEN [rec EXCEPT !.pc = "request_wait", !.req = TRUE]
                    ELSE [rec EXCEPT !.pc = "returned"]]
    /\ UNCHANGED isFullscreen

\* enter(), lines 195-203, up to its first await
RunEnter(c, rec) ==
    IF EnterReturnsEarly
    THEN /\ fsCall' = [fsCall EXCEPT ![c] = [rec EXCEPT !.pc = "returned"]]
         /\ UNCHANGED isFullscreen
    ELSE IF isElementFullScreen
         THEN RunExit(c, rec)
         ELSE RunRequest(c, rec)

\* toggle(), line 216
ToggleTarget == IF isFullscreen THEN "exit" ELSE "enter"

\* A call of enter(), exit() or toggle() by caller c, whose previous awaited
\* call was `prev`.
Begin(c, op, prev) ==
    LET fn == IF op = "toggle" THEN ToggleTarget ELSE op
        rec == [pc |-> "idle", op |-> op, fn |-> fn, prev |-> prev,
                sup |-> isSupported, preFs |-> isFullscreen, prePage |-> FsTop,
                req |-> FALSE, ext |-> FALSE,
                over |-> \E d \in DOMAIN fsCall \ {c} : fsCall[d].pc \in FsAwaiting]
    IN  IF fn = "exit" THEN RunExit(c, rec) ELSE RunEnter(c, rec)

\* ---- the platform's side
\* which transitions of the fullscreen stack dispatch an event the
\* controller listens to: any change (fullscreenchange and its prefixed
\* forms), and on the iPhone only the end of the video's fullscreen
\* (webkitendfullscreen; webkitbeginfullscreen is not in eventHandlers).
FiresChange(old, new) ==
    IF fsProfile = "iosVideo"
    THEN "target" \in SeqRange(old) /\ "target" \notin SeqRange(new)
    ELSE old # new

Dispatch(old, new) ==
    IF FiresChange(old, new) /\ fsEvents < MaxPendingEvents
    THEN fsEvents + 1
    ELSE fsEvents

Without(stack, e) == SelectSeq(stack, LAMBDA x : x # e)

\* The application calls enter(), exit() or toggle() from a task.
FsCallStart(c) ==
    /\ fsCall[c].pc = "idle"
    /\ ~FsMicrotaskPending
    /\ ~FsResumePending
    /\ \E op \in FsOps : Begin(c, op, "none")
    /\ fsLast' = FsOtherStep
    /\ UNCHANGED fsOthers
    /\ UNCHANGED <<fsProfile, fsTargetSet, fsStack, fsEvents>>

\* The caller awaited its call and makes the next one at once.
FsCallNext(c) ==
    /\ fsCall[c].pc = "returned"
    /\ \E op \in FsOps : Begin(c, op, fsCall[c].op)
    /\ fsLast' = FsOtherStep
    /\ UNCHANGED fsOthers
    /\ UNCHANGED <<fsProfile, fsTargetSet, fsStack, fsEvents>>

\* The caller is done for this task.
FsCallEnd(c) ==
    /\ fsCall[c].pc \in {"returned", "threw"}
    /\ fsCall' = [fsCall EXCEPT ![c] = FsIdleCall]
    /\ fsLast' = FsOtherStep
    /\ UNCHANGED fsOthers
    /\ UNCHANGED <<fsProfile, fsTargetSet, fsStack, fsEvents, isFullscreen>>

\* enter() after `await exit()`, line 205
FsEnterContinue(c) ==
    /\ fsCall[c].pc = "microtask"
    /\ RunRequest(c, fsCall[c])
    /\ fsLast' = FsOtherStep
    /\ UNCHANGED fsOthers
    /\ UNCHANGED <<fsProfile, fsTargetSet, fsStack, fsEvents>>

\* The platform leaves fullscreen and resolves the exit promise.
FsPlatformExitDone(c) ==
    /\ fsCall[c].pc = "exit_wait"
    /\ ~FsMicrotaskPending
    /\ ~FsResumePending
    /\ LET new == IF ExitReceiver = "document"
                  THEN (IF fsStack = <<>> THEN <<>> ELSE SubSeq(fsStack, 1, Len(fsStack) - 1))
                  ELSE Without(fsStack, "target")
       IN  /\ fsStack' = new
           /\ fsEvents' = Dispatch(fsStack, new)
    /\ fsCall' = [fsCall EXCEPT ![c].pc = "exit_resolved"]
    /\ fsLast' = FsOtherStep
    /\ UNCHANGED fsOthers
    /\ UNCHANGED <<fsProfile, fsTargetSet, isFullscreen>>

\* The platform rejects the exit (nothing is in fullscreen): exit() throws.
FsPlatformExitFail(c) ==
    /\ fsCall[c].pc = "exit_wait"
    /\ ~FsMicrotaskPending
    /\ ~FsResumePending
    /\ fsStack = <<>>
    /\ fsCall' = [fsCall EXCEPT ![c].pc = "threw"]
    /\ fsLast' = FsOtherStep
    /\ UNCHANGED fsOthers
    /\ UNCHANGED <<fsProfile, fsTargetSet, fsStack, fsEvents, isFullscreen>>

\* exit() after its await, line 191
FsExitResume(c) ==
    /\ fsCall[c].pc = "exit_resolved"
    /\ ~FsMicrotaskPending
    /\ isFullscreen' = FALSE
    /\ fsCall' = [fsCall EXCEPT ![c] = ExitSettled(fsCall[c])]
    /\ fsLast' = FsOtherStep
    /\ UNCHANGED fsOthers
    /\ UNCHANGED <<fsProfile, fsTargetSet, fsStack, fsEvents>>

\* The platform shows the target in fullscreen and resolves the request.
FsPlatformRequestDone(c) ==
    /\ fsCall[c].pc = "request_wait"
    /\ ~FsMicrotaskPending
    /\ ~FsResumePending
    /\ LET new == Append(Without(fsStack, "target"), "target")
       IN  /\ fsStack' = new
           /\ fsEvents' = Dispatch(fsStack, new)
    /\ fsCall' = [fsCall EXCEPT ![c].pc = "request_resolved"]
    /\ fsLast' = FsOtherStep
    /\ UNCHANGED fsOthers
    /\ UNCHANGED <<fsProfile, fsTargetSet, isFullscreen>>

EnterAfterReject_Caught == "request_resolved"

\* enter(), line 207: the await is in no try block, so a rejection ends
\* enter() there, with the rejection passed on to its caller
EnterAfterReject == "threw"

\* The platform rejects the request.
FsPlatformRequestFail(c) ==
    /\ fsCall[c].pc = "request_wait"
    /\ ~FsMicrotaskPending
    /\ ~FsResumePending
    /\ fsCall' = [fsCall EXCEPT ![c].pc = EnterAfterReject]
    /\ fsLast' = [kind |-> "reject", before |-> isFullscreen]
    /\ UNCHANGED fsOthers
    /\ UNCHANGED <<fsProfile, fsTargetSet, fsStack, fsEvents, isFullscreen>>

EnterFlip_Keeps == isFullscreen

\* enter() after the request resolved, line 209
EnterFlip == TRUE

FsEnterResume(c) ==
    /\ fsCall[c].pc = "request_resolved"
    /\ ~FsMicrotaskPending
    /\ isFullscreen' = EnterFlip
    /\ fsCall' = [fsCall EXCEPT ![c].pc = "returned"]
    /\ fsLast' = FsOtherStep
    /\ UNCHANGED fsOthers
    /\ UNCHANGED <<fsProfile, fsTargetSet, fsStack, fsEvents>>

handlerCallback_Always == isElementFullScreen

\* handlerCallback, lines 220-227: the flag after a change event
handlerCallback ==
    IF ~isElementFullScreen \/ (isElementFullScreen /\ isCurrentElementFullScreen)
    THEN isElementFullScreen
    ELSE isFullscreen

\* A change event reaches the listener on the document or on the target
\* (the first one is the call tryOnMounted makes, line 237).
FsHandleChange ==
    /\ fsEvents > 0
    /\ ~FsMicrotaskPending
    /\ isFullscreen' = handlerCallback
    /\ fsEvents' = fsEvents - 1
    /\ fsLast' = [kind |-> "handler", before |-> isFullscreen]
    /\ UNCHANGED fsOthers
    /\ UNCHANGED <<fsProfile, fsTargetSet, fsStack, fsCall>>

\* The user leaves fullscreen (Escape): the page exits fullscreen fully.
FsUserExit ==
    /\ fsStack # <<>>
    /\ ~FsMicrotaskPending
    /\ ~FsResumePending
    /\ fsStack' = <<>>
    /\ fsEvents' = Dispatch(fsStack, <<>>)
    /\ fsLast' = FsOtherStep
    /\ UNCHANGED fsOthers
    /\ UNCHANGED <<fsProfile, fsTargetSet, isFullscreen, fsCall>>

\* Another script puts another element in fullscreen.
FsOtherEnters ==
    /\ "other" \notin SeqRange(fsStack)
    /\ ~FsMicrotaskPending
    /\ ~FsResumePending
    /\ fsStack' = Append(fsStack, "other")
    /\ fsEvents' = Dispatch(fsStack, Append(fsStack, "other"))
    /\ fsLast' = FsOtherStep
    /\ UNCHANGED fsOthers
    /\ UNCHANGED <<fsProfile, fsTargetSet, isFullscreen, fsCall>>

\* The target reference comes to hold an element (the component mounts) or
\* ceases to hold one (it unmounts).
FsTargetChanges ==
    /\ ~FsMicrotaskPending
    /\ ~FsResumePending
    /\ fsTargetSet' = ~fsTargetSet
    /\ fsLast' = FsOtherStep
    /\ UNCHANGED fsOthers
    /\ UNCHANGED <<fsProfile, fsStack, fsEvents, isFullscreen, fsCall>>

\* After construction: the flag is false (line 86), no call is in progress,
\* and the mount-time call of handlerCallback (line 237) is still to run.
FsInit ==
    /\ fsProfile \in FsProfiles
    /\ fsTargetSet \in BOOLEAN
    /\ fsStack \in {<<>>, <<"other">>, <<"target">>}
    /\ fsEvents = 1
    /\ isFullscreen = FALSE
    /\ fsCall = [c \in Callers |-> FsIdleCall]
    /\ fsLast = FsOtherStep

FsNext ==
    \/ \E c \in Callers :
          \/ FsCallStart(c)
          \/ FsCallNext(c)
          \/ FsCallEnd(c)
          \/ FsEnterContinue(c)
          \/ FsPlatformExitDone(c)
          \/ FsPlatformExitFail(c)
          \/ FsExitResume(c)
          \/ FsPlatformRequestDone(c)
          \/ FsPlatformRequestFail(c)
          \/ FsEnterResume(c)
    \/ FsHandleChange
    \/ FsUserExit
    \/ FsOtherEnters
    \/ FsTargetChanges

\* After construction, with two scripts that hold the controller, the target
\* mounted for good and not in fullscreen when the controller is made.
FsInitConcurrent ==
    /\ fsProfile \in FsProfiles
    /\ fsTargetSet = TRUE
    /\ fsStack \in {<<>>, <<"other">>}
    /\ fsEvents = 1
    /\ isFullscreen = FALSE
    /\ fsCall = [c \in Scripts |-> FsIdleCall]
    /\ fsLast = FsOtherStep

\* The calls of the two scripts, the platform settling them, the change
\* events and the user leaving fullscreen.
FsNextConcurrent ==
    \/ \E c \in Scripts :
          \/ FsCallStart(c)
          \/ FsCallNext(c)
          \/ FsCallEnd(c)
          \/ FsEnterContinue(c)
          \/ FsPlatformExitDone(c)
          \/ FsPlatformExitFail(c)
          \/ FsExitResume(c)
          \/ FsPlatformRequestDone(c)
          \/ FsPlatformRequestFail(c)
          \/ FsEnterResume(c)
    \/ FsHandleChange
    \/ FsUserExit

\* useFullscreen not in use
FsPark ==
    /\ fsProfile = "none"
    /\ fsTargetSet = TRUE
    /\ fsStack = <<>>
    /\ fsEvents = 0
    /\ isFullscreen = FALSE
    /\ fsCall = [c \in Callers |-> FsIdleCall]
    /\ fsLast = FsOtherStep

(***************************************************************************)
(*                           useElementHover                               *)
(***************************************************************************)

\* ---- bounds
MaxDelay == 2
MaxTime == 5

HvNoEvent == [kind |-> "none", at |-> 0, pending |-> {}]

\* clearTimeout(timer): the platform drops the timer of that handle, if it
\* still holds it
clearTimeout(handle) == hvPending \ SeqRange(handle)

HoverDelay_Swapped(entering) == IF entering THEN hvDelayLeave ELSE hvDelayEnter

\* toggle, line 68
HoverDelay(entering) == IF entering THEN hvDelayEnter ELSE hvDelayLeave

toggle_NoClear(entering) ==
    LET delay == HoverDelay(entering)
        new == [due |-> hvNow + delay, entering |-> entering]
    IN  IF delay # 0
        THEN /\ hvTimer' = <<new>>
             /\ hvPending' = hvPending \cup {new}
             /\ UNCHANGED isHovered
        ELSE /\ UNCHANGED <<hvTimer, hvPending>>
             /\ isHovered' = entering

toggle_ClearOnlyWhenDelayed(entering) ==
    LET delay == HoverDelay(entering)
        cleared == IF hvTimer # <<>> THEN clearTimeout(hvTimer) ELSE hvPending
        new == [due |-> hvNow + delay, entering |-> entering]
    IN  IF delay # 0
        THEN /\ hvTimer' = <<new>>
             /\ hvPending' = cleared \cup {new}
             /\ UNCHANGED isHovered
        ELSE /\ UNCHANGED <<hvTimer, hvPending>>
             /\ isHovered' = entering

\* toggle, lines 66-82
toggle(entering) ==
    LET delay == HoverDelay(entering)
        cleared == IF hvTimer # <<>> THEN clearTimeout(hvTimer) ELSE hvPending
        new == [due |-> hvNow + delay, entering |-> entering]
    IN  IF delay # 0
        THEN /\ hvTimer' = <<new>>
             /\ hvPending' = cleared \cup {new}
             /\ UNCHANGED isHovered
        ELSE /\ hvTimer' = <<>>
             /\ hvPending' = cleared
             /\ isHovered' = entering

\* the mouseenter listener, line 89
HvMouseEnter ==
    /\ toggle(TRUE)
    /\ hvLast' = [kind |-> "enter", at |-> hvNow, pending |-> hvPending]
    /\ UNCHANGED <<hvDelayEnter, hvDelayLeave, hvRemoval, hvNow>>
    /\ UNCHANGED hvOthers

\* the mouseleave listener, line 92
HvMouseLeave ==
    /\ toggle(FALSE)
    /\ hvLast' = [kind |-> "leave", at |-> hvNow, pending |-> hvPending]
    /\ UNCHANGED <<hvDelayEnter, hvDelayLeave, hvRemoval, hvNow>>
    /\ UNCHANGED hvOthers

HvElementRemoved_Ignored ==
    /\ hvRemoval
    /\ hvLast' = [kind |-> "removal", at |-> hvNow, pending |-> hvPending]
    /\ UNCHANGED <<hvDelayEnter, hvDelayLeave, hvRemoval, isHovered, hvTimer,
                   hvPending, hvNow>>
    /\ UNCHANGED hvOthers

\* the onElementRemoval callback, lines 95-100
HvElementRemoved ==
    /\ hvRemoval
    /\ toggle(FALSE)
    /\ hvLast' = [kind |-> "removal", at |-> hvNow, pending |-> hvPending]
    /\ UNCHANGED <<hvDelayEnter, hvDelayLeave, hvRemoval, hvNow>>
    /\ UNCHANGED hvOthers

\* the setTimeout callback of line 78, run when its delay has elapsed; it
\* leaves the variable `timer` as it is
HvTimerFires ==
    /\ \E t \in hvPending :
          /\ t.due <= hvNow
          /\ \A u \in hvPending : t.due <= u.due
          /\ isHovered' = t.entering
          /\ hvPending' = hvPending \ {t}
    /\ UNCHANGED <<hvDelayEnter, hvDelayLeave, hvRemoval, hvTimer, hvNow, hvLast>>
    /\ UNCHANGED hvOthers

\* a millisecond passes; a timer that is due runs first
HvTick ==
    /\ hvNow < MaxTime
    /\ \A t \in hvPending : t.due > hvNow
    /\ hvNow' = hvNow + 1
    /\ UNCHANGED <<hvDelayEnter, hvDelayLeave, hvRemoval, isHovered, hvTimer,
                   hvPending, hvLast>>
    /\ UNCHANGED hvOthers

\* after construction, lines 49-60
HvInit ==
    /\ hvDelayEnter \in 0..MaxDelay
    /\ hvDelayLeave \in 0..MaxDelay
    /\ hvRemoval \in BOOLEAN
    /\ isHovered = FALSE
    /\ hvTimer = <<>>
    /\ hvPending = {}
    /\ hvNow = 0
    /\ hvLast = HvNoEvent

\* useElementHover not in use
HvPark ==
    /\ hvDelayEnter = 0
    /\ hvDelayLeave = 0
    /\ hvRemoval = FALSE
    /\ isHovered = FALSE
    /\ hvTimer = <<>>
    /\ hvPending = {}
    /\ hvNow = 0
    /\ hvLast = HvNoEvent

HvNext ==
    \/ HvMouseEnter
    \/ HvMouseLeave
    \/ HvElementRemoved
    \/ HvTimerFires
    \/ HvTick

(***************************************************************************)
(*                             useClipboard                                *)
(***************************************************************************)

\* ---- bounds
MaxDuring == 2
NumCopiers == 1

Copiers == 1..NumCopiers

\* what copy() is called with: a string, or null/undefined with no source
CopyValues == {"x", "y", Null}

PermissionStates == {"granted", "prompt", "denied", Undefined}

ClNoTimeout == [set |-> FALSE, due |-> 0]

ClNoCall == [pc |-> "idle", value |-> Null, allowed |-> FALSE]

ClNoPath == [allowed |-> FALSE, wrote |-> FALSE, rejected |-> FALSE, legacy |-> FALSE]

ClNoCopy == [at |-> -1, value |-> Null, replaced |-> ClNoTimeout]

\* line 102 (the composable's own isSupported)
clIsSupported == clApi \/ clLegacy

\* lines 213-215
isAllowed(status) == status = "granted" \/ status = "prompt"

ClNoEntry ==
    [done |-> FALSE, caller |-> 1, value |-> Null, supported |-> FALSE, text |-> "",
     copied |-> FALSE, timeout |-> ClNoTimeout, board |-> ""]

CopyActs_AnyValue(value) == clIsSupported

\* copy, line 149
CopyActs(value) == clIsSupported /\ value # Null

CopyUsesLegacy_IgnoresPermission == ~clApi

\* copy, line 151
CopyUsesLegacy == ~(clApi /\ isAllowed(clPermWrite))

\* timeout.start() of useTimeoutFn: any pending timer is dropped and one
\* timer is set that runs the callback once, copiedDuring ms from now
TimeoutStart == [set |-> TRUE, due |-> clNow + clDuring]

FinishCopy_NoTimer(c, value) ==
    /\ clText' = value
    /\ copied' = TRUE
    /\ UNCHANGED clTimeout
    /\ clLast' = [at |-> clNow, value |-> value, replaced |-> clTimeout]
    /\ clCall' = [clCall EXCEPT ![c] = ClNoCall]

FinishCopy_KeepsTimer(c, value) ==
    /\ clText' = value
    /\ copied' = TRUE
    /\ clTimeout' = IF clTimeout.set THEN clTimeout ELSE TimeoutStart
    /\ clLast' = [at |-> clNow, value |-> value, replaced |-> clTimeout]
    /\ clCall' = [clCall EXCEPT ![c] = ClNoCall]

\* copy, lines 168-171
FinishCopy(c, value) ==
    /\ clText' = value
    /\ copied' = TRUE
    /\ clTimeout' = TimeoutStart
    /\ clLast' = [at |-> clNow, value |-> value, replaced |-> clTimeout]
    /\ clCall' = [clCall EXCEPT ![c] = ClNoCall]

\* legacyCopy, lines 180-197: document.execCommand('copy') puts the text of
\* the textarea on the clipboard, or fails and says so in a result that is
\* not looked at
legacyCopy(value, ok) == clBoard' = IF ok THEN value ELSE clBoard

\* copy(value), lines 147-173, up to its await
ClCopy(c) ==
    /\ clCall[c].pc = "idle"
    /\ \E value \in CopyValues :
          /\ clEntry' = [done |-> TRUE, caller |-> c, value |-> value,
                         supported |-> clIsSupported, text |-> clText,
                         copied |-> copied, timeout |-> clTimeout, board |-> clBoard]
          /\ IF CopyActs(value)
             THEN IF ~CopyUsesLegacy
                  THEN /\ clCall' = [clCall EXCEPT ![c] =
                                       [pc |-> "write_wait", value |-> value,
                                        allowed |-> clPermWrite \in {"granted", "prompt"}]]
                       /\ UNCHANGED <<clText, copied, clTimeout, clBoard, clLast, clPath>>
                  ELSE /\ \E ok \in BOOLEAN : legacyCopy(value, ok)
                       /\ FinishCopy(c, value)
                       /\ clPath' = [allowed |-> clPermWrite \in {"granted", "prompt"}, wrote |-> FALSE,
                                     rejected |-> FALSE, legacy |-> TRUE]
             ELSE UNCHANGED <<clText, copied, clTimeout, clBoard, clCall, clLast, clPath>>
    /\ UNCHANGED <<clApi, clLegacy, clPermWrite, clDuring, clNow>>
    /\ UNCHANGED clOthers

\* navigator.clipboard.writeText resolves; copy goes on at line 168
ClWriteResolves(c) ==
    /\ clCall[c].pc = "write_wait"
    /\ clBoard' = clCall[c].value
    /\ FinishCopy(c, clCall[c].value)
    /\ clPath' = [allowed |-> clCall[c].allowed, wrote |-> TRUE, rejected |-> FALSE, legacy |-> FALSE]
    /\ UNCHANGED <<clApi, clLegacy, clPermWrite, clDuring, clNow>>
    /\ clEntry' = ClNoEntry
    /\ UNCHANGED clOthers

\* navigator.clipboard.writeText rejects; copy goes on at line 158
ClWriteRejects(c) ==
    /\ clCall[c].pc = "write_wait"
    /\ \E ok \in BOOLEAN : legacyCopy(clCall[c].value, ok)
    /\ FinishCopy(c, clCall[c].value)
    /\ clPath' = [allowed |-> clCall[c].allowed, wrote |-> TRUE, rejected |-> TRUE, legacy |-> TRUE]
    /\ UNCHANGED <<clApi, clLegacy, clPermWrite, clDuring, clNow>>
    /\ clEntry' = ClNoEntry
    /\ UNCHANGED clOthers

\* the callback of line 111, run by the timer
ClTimerFires ==
    /\ clTimeout.set
    /\ clTimeout.due <= clNow
    /\ copied' = FALSE
    /\ clTimeout' = ClNoTimeout
    /\ UNCHANGED <<clApi, clLegacy, clPermWrite, clDuring, clText, clBoard, clCall,
                   clNow, clLast, clPath>>
    /\ clEntry' = ClNoEntry
    /\ UNCHANGED clOthers

\* the user changes the permission in the browser
ClPermissionChanges ==
    /\ \E st \in PermissionStates \ {clPermWrite, Undefined} : clPermWrite' = st
    /\ clPermWrite # Undefined
    /\ UNCHANGED <<clApi, clLegacy, clDuring, clText, copied, clTimeout, clBoard,
                   clCall, clNow, clLast, clPath>>
    /\ clEntry' = ClNoEntry
    /\ UNCHANGED clOthers

\* a millisecond passes; a timer that is due runs first
ClTick ==
    /\ clNow < MaxTime
    /\ ~(clTimeout.set /\ clTimeout.due <= clNow)
    /\ clNow' = clNow + 1
    /\ UNCHANGED <<clApi, clLegacy, clPermWrite, clDuring, clText, copied, clTimeout,
                   clBoard, clCall, clLast, clPath>>
    /\ clEntry' = ClNoEntry
    /\ UNCHANGED clOthers

\* after construction, lines 84-111
ClInit ==
    /\ clApi \in BOOLEAN
    /\ clLegacy \in BOOLEAN
    /\ clPermWrite \in PermissionStates
    /\ clDuring \in 1..MaxDuring
    /\ clText = ""
    /\ copied = FALSE
    /\ clTimeout = ClNoTimeout
    /\ clBoard = ""
    /\ clCall = [c \in Copiers |-> ClNoCall]
    /\ clNow = 0
    /\ clLast = ClNoCopy
    /\ clPath = ClNoPath
    /\ clEntry = ClNoEntry

\* useClipboard not in use
ClPark ==
    /\ clApi = FALSE
    /\ clLegacy = FALSE
    /\ clPermWrite = Undefined
    /\ clDuring = 1
    /\ clText = ""
    /\ copied = FALSE
    /\ clTimeout = ClNoTimeout
    /\ clBoard = ""
    /\ clCall = [c \in Copiers |-> ClNoCall]
    /\ clNow = 0
    /\ clLast = ClNoCopy
    /\ clPath = ClNoPath
    /\ clEntry = ClNoEntry

ClNext ==
    \/ \E c \in Copiers :
          \/ ClCopy(c)
          \/ ClWriteResolves(c)
          \/ ClWriteRejects(c)
    \/ ClTimerFires
    \/ ClPermissionChanges
    \/ ClTick

(***************************************************************************)
(*                          useBrowserLocation                             *)
(***************************************************************************)

\* ---- bounds: how many of the writable properties, how many values each,
\* how many undelivered events
NumFields == 2
NumValues == 2
MaxNavEvents == 1
MaxHistory == 2

\* lines 14-23
WRITABLE_PROPERTIES ==
    <<"hash", "host", "hostname", "href", "pathname", "port", "protocol", "search">>

\* The properties the model follows: the code treats all eight alike (the
\* loops of lines 138 and 160).
LcFields == {WRITABLE_PROPERTIES[i] : i \in 1..NumFields}

\* The values a property takes, the same whether read or assigned: the
\* platform's location is taken as a store of properties.
LcValues == {"v" \o ToString(i) : i \in 1..NumValues}

\* The values of history.state, and the entries of window.history
LcHistoryStates == {Null, "entry"}
LcHistories == [state : LcHistoryStates, length : 1..MaxHistory]

LcOtherStep ==
    [kind |-> "other", field |-> "hash", value |-> "v1", fresh |-> FALSE,
     single |-> FALSE, was |-> "v1", writes |-> {}, event |-> "none"]

\* buildState has just run, for the event named
LcRebuildStep(event) == [LcOtherStep EXCEPT !.kind = "rebuild", !.event = event]

WatchAssigns_Never(f, value) == FALSE

\* the watcher's callback, lines 139-145: whether it assigns to
\* window.location[f]
WatchAssigns(f, value) == lcLoc[f] # value

\* A watcher created by watch(ref, cb) without options runs its callback
\* deferred: the change queues it, and the queue is flushed in a microtask,
\* where the callback runs if the value differs from the one seen last.
LcRuns(f) == f \in lcQueue /\ lcRefs[f] # lcWatched[f]

LcBuildState_KeepsHistory(trigger) ==
    /\ lcRefs' = [f \in LcFields |-> lcLoc[f]]
    /\ lcQueue' = lcQueue \cup {f \in LcFields : lcRefs[f] # lcLoc[f]}
    /\ lcTrigger' = trigger
    /\ UNCHANGED lcState

\* buildState, lines 153-171: every ref takes the platform's value, and the
\* state object takes the trigger, history.state, history.length and origin
LcBuildState(trigger) ==
    /\ lcRefs' = [f \in LcFields |-> lcLoc[f]]
    /\ lcQueue' = lcQueue \cup {f \in LcFields : lcRefs[f] # lcLoc[f]}
    /\ lcTrigger' = trigger
    /\ lcState' = [state |-> lcHistory.state, length |-> lcHistory.length,
                   origin |-> lcOrigin]

\* The application assigns a value to one field of the state.
LcAssign(f, v) ==
    /\ lcRefs' = [lcRefs EXCEPT ![f] = v]
    /\ lcQueue' = IF v # lcRefs[f] THEN lcQueue \cup {f} ELSE lcQueue
    /\ lcLast' = [kind |-> "assign", field |-> f, value |-> v,
                  fresh |-> (v # lcRefs[f]), single |-> (lcQueue = {}),
                  was |-> lcLoc[f], writes |-> {}, event |-> "none"]
    /\ UNCHANGED <<lcLoc, lcWatched, lcEvents, lcTrigger, lcHistory, lcOrigin, lcState>>
    /\ UNCHANGED lcOthers

\* The queued watchers run (lines 139-145), before any other task.  An
\* assignment to location.hash makes the platform dispatch hashchange.
LcFlush ==
    /\ lcQueue # {}
    /\ lcLoc' = [f \in LcFields |->
                    IF LcRuns(f) /\ WatchAssigns(f, lcRefs[f]) THEN lcRefs[f] ELSE lcLoc[f]]
    /\ lcWatched' = [f \in LcFields |-> IF f \in lcQueue THEN lcRefs[f] ELSE lcWatched[f]]
    /\ lcQueue' = {}
    /\ lcEvents' = IF /\ "hash" \in LcFields
                      /\ LcRuns("hash")
                      /\ WatchAssigns("hash", lcRefs["hash"])
                      /\ Len(lcEvents) < MaxNavEvents
                   THEN Append(lcEvents, "hashchange")
                   ELSE lcEvents
    /\ lcLast' = [(IF lcLast.kind \in {"assign", "rebuild"} THEN lcLast ELSE LcOtherStep)
                    EXCEPT !.kind = IF lcLast.kind = "rebuild" THEN "rebuilt" ELSE "flush",
                           !.writes = {f \in LcFields :
                                          LcRuns(f) /\ WatchAssigns(f, lcRefs[f])}]
    /\ UNCHANGED <<lcRefs, lcTrigger, lcHistory, lcOrigin, lcState>>
    /\ UNCHANGED lcOthers

\* The user or a script navigates (back, forward, a link to a fragment):
\* the location changes, the current history entry is another one (a new
\* one for a link), and the platform dispatches popstate or hashchange.
LcNavigate ==
    /\ lcQueue = {}
    /\ Len(lcEvents) < MaxNavEvents
    /\ \E f \in LcFields, v \in LcValues :
          /\ v # lcLoc[f]
          /\ lcLoc' = [lcLoc EXCEPT ![f] = v]
    /\ \E ev \in {"popstate", "hashchange"} : lcEvents' = Append(lcEvents, ev)
    /\ \E h \in LcHistories :
          /\ h.length \in {lcHistory.length, lcHistory.length + 1}
          /\ lcHistory' = h
    /\ lcLast' = LcOtherStep
    /\ UNCHANGED <<lcRefs, lcWatched, lcQueue, lcTrigger, lcOrigin, lcState>>
    /\ UNCHANGED lcOthers

\* A script calls history.pushState or replaceState: the location and the
\* history state change, pushState adds an entry, and no event is dispatched.
LcPushState ==
    /\ lcQueue = {}
    /\ \E f \in LcFields, v \in LcValues :
          /\ v # lcLoc[f]
          /\ lcLoc' = [lcLoc EXCEPT ![f] = v]
    /\ \E h \in LcHistories :
          /\ h.length \in {lcHistory.length, lcHistory.length + 1}
          /\ lcHistory' = h
    /\ lcLast' = LcOtherStep
    /\ UNCHANGED <<lcRefs, lcWatched, lcQueue, lcEvents, lcTrigger, lcOrigin, lcState>>
    /\ UNCHANGED lcOthers

\* the popstate and hashchange listeners, lines 181 and 184
LcHandleEvent ==
    /\ lcQueue = {}
    /\ lcEvents # <<>>
    /\ LcBuildState(Head(lcEvents))
    /\ lcEvents' = Tail(lcEvents)
    /\ lcLast' = LcRebuildStep(Head(lcEvents))
    /\ UNCHANGED <<lcLoc, lcWatched, lcHistory, lcOrigin>>
    /\ UNCHANGED lcOthers

\* After construction: the refs were created undefined (line 134), their
\* watchers set up (line 139), and buildState('load') (line 174) has given
\* the refs the platform's values, which queued every watcher.
LcInit ==
    /\ lcLoc \in [LcFields -> LcValues]
    /\ lcRefs = lcLoc
    /\ lcWatched = [f \in LcFields |-> Undefined]
    /\ lcQueue = LcFields
    /\ lcEvents = <<>>
    /\ lcTrigger = "load"
    /\ lcHistory \in LcHistories
    /\ lcOrigin \in LcValues
    /\ lcState = [state |-> lcHistory.state, length |-> lcHistory.length,
                  origin |-> lcOrigin]
    /\ lcLast = LcRebuildStep("load")

\* useBrowserLocation not in use
LcPark ==
    /\ lcLoc = [f \in LcFields |-> "v1"]
    /\ lcRefs = lcLoc
    /\ lcWatched = lcLoc
    /\ lcQueue = {}
    /\ lcEvents = <<>>
    /\ lcTrigger = "load"
    /\ lcHistory = [state |-> Null, length |-> 1]
    /\ lcOrigin = "v1"
    /\ lcState = [state |-> Null, length |-> 1, origin |-> "v1"]
    /\ lcLast = LcOtherStep

LcNext ==
    \/ \E f \in LcFields, v \in LcValues : LcAssign(f, v)
    \/ LcFlush
    \/ LcNavigate
    \/ LcPushState
    \/ LcHandleEvent

(***************************************************************************)
(*                              useNetwork                                 *)
(***************************************************************************)

\* ---- bounds
MaxNetEvents == 2

QualityFields == {"downlink", "downlinkMax", "effectiveType", "rtt", "saveData", "type"}

\* what navigator.connection may hold (numbers and booleans written as the
\* platform prints them)
ConnSnapshots ==
    <<[downlink |-> "10", downlinkMax |-> "100", effectiveType |-> "4g",
       rtt |-> "50", saveData |-> "false", type |-> "wifi"],
      [downlink |-> "1.5", downlinkMax |-> "20", effectiveType |-> "3g",
       rtt |-> "300", saveData |-> "true", type |-> "cellular"]>>

\* a timestamp that is undefined, and one that is set
NoStamp == {}

Stamp(t) == {t}

\* lines 272-288: the refs as they are created
NwRefs ==
    [isOnline |-> TRUE, saveData |-> "false", offlineAt |-> NoStamp, onlineAt |-> NoStamp,
     downlink |-> Undefined, downlinkMax |-> Undefined, rtt |-> Undefined,
     effectiveType |-> Undefined, type |-> "unknown"]

\* line 269
nwIsSupported == nwWindow /\ nwConn

\* line 291: false, or navigator.connection
connection == nwIsSupported

\* connection[k], read from the platform
ConnectionField(k) == IF nwConn THEN ConnSnapshots[nwConnInfo][k] ELSE Undefined

UpdateQuality_Unguarded(cur) == [k \in QualityFields |-> ConnectionField(k)]

\* updateNetworkInformation, lines 307-314
UpdateQuality(cur) ==
    IF connection
    THEN [k \in QualityFields |-> ConnectionField(k)]
    ELSE [k \in QualityFields |-> cur[k]]

\* updateNetworkInformation, lines 294-315
updateNetworkInformation(cur) ==
    IF ~nwWindow THEN cur
    ELSE LET q == UpdateQuality(cur)
         IN  [isOnline |-> nwOnLine,
              offlineAt |-> IF nwOnLine THEN NoStamp ELSE Stamp(nwNow),
              onlineAt |-> IF nwOnLine THEN Stamp(nwNow) ELSE NoStamp,
              downlink |-> q["downlink"], downlinkMax |-> q["downlinkMax"],
              effectiveType |-> q["effectiveType"], rtt |-> q["rtt"],
              saveData |-> q["saveData"], type |-> q["type"]]

NwNoEvent == [kind |-> "none", at |-> 0]

\* The platform loses the network and dispatches offline.
NwGoesOffline ==
    /\ nwWindow
    /\ nwOnLine
    /\ Len(nwEvents) < MaxNetEvents
    /\ nwOnLine' = FALSE
    /\ nwEvents' = Append(nwEvents, "offline")
    /\ UNCHANGED <<nwWindow, nwConn, nwConnInfo, nw, nwNow>>
    /\ UNCHANGED nwLast
    /\ UNCHANGED nwOthers

\* The platform gets the network back and dispatches online.
NwGoesOnline ==
    /\ nwWindow
    /\ ~nwOnLine
    /\ Len(nwEvents) < MaxNetEvents
    /\ nwOnLine' = TRUE
    /\ nwEvents' = Append(nwEvents, "online")
    /\ UNCHANGED <<nwWindow, nwConn, nwConnInfo, nw, nwNow>>
    /\ UNCHANGED nwLast
    /\ UNCHANGED nwOthers

\* The connection changes and dispatches change, which has a listener only
\* where navigator.connection exists (line 340).
NwConnectionChanges ==
    /\ connection
    /\ Len(nwEvents) < MaxNetEvents
    /\ \E i \in 1..Len(ConnSnapshots) : i # nwConnInfo /\ nwConnInfo' = i
    /\ nwEvents' = Append(nwEvents, "change")
    /\ UNCHANGED <<nwWindow, nwConn, nwOnLine, nw, nwNow>>
    /\ UNCHANGED nwLast
    /\ UNCHANGED nwOthers

NwHandleOffline_NoStamp ==
    /\ nwEvents # <<>> /\ Head(nwEvents) = "offline"
    /\ nw' = [nw EXCEPT !.isOnline = FALSE]
    /\ nwEvents' = Tail(nwEvents)
    /\ UNCHANGED <<nwWindow, nwConn, nwConnInfo, nwOnLine, nwNow>>
    /\ nwLast' = [kind |-> "offline", at |-> nwNow]
    /\ UNCHANGED nwOthers

\* the offline listener, lines 327-330
NwHandleOffline ==
    /\ nwEvents # <<>> /\ Head(nwEvents) = "offline"
    /\ nw' = [nw EXCEPT !.isOnline = FALSE, !.offlineAt = Stamp(nwNow)]
    /\ nwEvents' = Tail(nwEvents)
    /\ UNCHANGED <<nwWindow, nwConn, nwConnInfo, nwOnLine, nwNow>>
    /\ nwLast' = [kind |-> "offline", at |-> nwNow]
    /\ UNCHANGED nwOthers

\* the online listener, lines 333-336
NwHandleOnline ==
    /\ nwEvents # <<>> /\ Head(nwEvents) = "online"
    /\ nw' = [nw EXCEPT !.isOnline = TRUE, !.onlineAt = Stamp(nwNow)]
    /\ nwEvents' = Tail(nwEvents)
    /\ UNCHANGED <<nwWindow, nwConn, nwConnInfo, nwOnLine, nwNow>>
    /\ nwLast' = [kind |-> "online", at |-> nwNow]
    /\ UNCHANGED nwOthers

\* the change listener, line 341
NwHandleChange ==
    /\ nwEvents # <<>> /\ Head(nwEvents) = "change"
    /\ nw' = updateNetworkInformation(nw)
    /\ nwEvents' = Tail(nwEvents)
    /\ UNCHANGED <<nwWindow, nwConn, nwConnInfo, nwOnLine, nwNow>>
    /\ nwLast' = [kind |-> "change", at |-> nwNow]
    /\ UNCHANGED nwOthers

\* a millisecond passes
NwTick ==
    /\ nwNow < MaxTime
    /\ nwNow' = nwNow + 1
    /\ UNCHANGED <<nwWindow, nwConn, nwConnInfo, nwOnLine, nw, nwEvents>>
    /\ UNCHANGED nwLast
    /\ UNCHANGED nwOthers

\* after construction: the refs, then the call of line 344
NwInit ==
    /\ nwWindow \in BOOLEAN
    /\ nwConn \in BOOLEAN
    /\ nwConnInfo \in 1..Len(ConnSnapshots)
    /\ nwOnLine \in BOOLEAN
    /\ nwEvents = <<>>
    /\ nwNow = 0
    /\ nw = updateNetworkInformation(NwRefs)
    /\ nwLast = NwNoEvent

\* useNetwork not in use
NwPark ==
    /\ nwWindow = FALSE
    /\ nwConn = FALSE
    /\ nwConnInfo = 1
    /\ nwOnLine = TRUE
    /\ nwEvents = <<>>
    /\ nwNow = 0
    /\ nw = NwRefs
    /\ nwLast = NwNoEvent

NwNext ==
    \/ NwGoesOffline
    \/ NwGoesOnline
    \/ NwConnectionChanges
    \/ NwHandleOffline
    \/ NwHandleOnline
    \/ NwHandleChange
    \/ NwTick

(***************************************************************************)
(*                               useCssVar                                 *)
(*                                                                         *)
(* A window is present, so the target falls back to the document's root    *)
(* element and elRef is always an element.  The element "e1" is a          *)
(* descendant of the root, from which custom properties inherit.           *)
(***************************************************************************)

\* ---- bounds
MaxChanges == 2

CvElements == {"root", "e1"}

CvProps == {"--a", "--b"}

\* what a style sheet may give the root for --a: the text after the colon,
\* as platforms that keep its leading blank report it
CvSheetValue == " green"

\* the values a property or the bound value may take, besides null,
\* undefined and the empty string
CvValues == {"red", "green"}

\* a step of the kind named; for a write, the property's inline value before
CvStep(kind, before) ==
    [kind |-> kind, before |-> before, old |-> <<"root", Null>>,
     found |-> [e \in CvElements |-> [p \in CvProps |-> ""]], cur |-> Undefined]

CvNoStep == CvStep("init", "")

\* a callback that ran, and whether it changed what it writes: the bound
\* value for a read, the inline styles for a write
CvRan(kind, changed) == [kind |-> kind, changed |-> changed]

\* a change from outside starts the trail anew, unless it joins the changes
\* of this task whose callbacks have not run yet
CvTrailAfterChange ==
    IF cvMicro = <<>>
    THEN <<CvRan("change", TRUE)>>
    ELSE Append(cvTrail, CvRan("change", TRUE))

\* String.prototype.trim, line 50, on the values that occur
Trim(v) == IF v = CvSheetValue THEN "green" ELSE v

\* JavaScript's truthiness of a string, null or undefined
Truthy(v) == v \notin {Undefined, Null, ""}

\* line 39: unrefElement(target) || window.document.documentElement
elRef == IF cvTarget # Null THEN cvTarget ELSE "root"

\* what an element has of its own for a property: its inline style, else the
\* style sheets
CvOwn(inline, e, p) == IF inline[e][p] # "" THEN inline[e][p] ELSE cvSheet[e][p]

\* window.getComputedStyle(e).getPropertyValue(p), line 50
getComputedStyle(inline, e, p) ==
    IF CvOwn(inline, e, p) # "" THEN CvOwn(inline, e, p) ELSE CvOwn(inline, "root", p)

\* el.style.removeProperty(p)
removeProperty(inline, e, p) == [inline EXCEPT ![e][p] = ""]

\* el.style.setProperty(p, v): an empty value removes the property
setProperty(inline, e, p, v) == [inline EXCEPT ![e][p] = v]

\* updateCssVar, lines 42-55: the bound value it leaves, given the one it
\* finds and the inline styles it reads
updateCssVar(cur, inline) ==
    IF cvProp # Null
    THEN LET value == Trim(getComputedStyle(inline, elRef, cvProp))
         IN  IF Truthy(value) THEN value
             ELSE IF Truthy(cur) THEN cur
             ELSE cvInitial
    ELSE cur

\* the first watcher's callback, lines 68-74: the inline styles after the
\* old property is removed
RemoveOld(inline, old) ==
    IF old[1] # Undefined /\ Truthy(old[2])
    THEN removeProperty(inline, old[1], old[2])
    ELSE inline

ReadAfterChange_BeforeRemoval(inline, old) == updateCssVar(variable, inline)

\* the first watcher's callback, lines 68-74: the bound value after
\* updateCssVar has run on the styles the removal leaves
ReadAfterChange(inline, old) == updateCssVar(variable, RemoveOld(inline, old))

ApplyWrite_SetOnly(inline, val, el) ==
    IF cvProp # Null /\ val \notin {Null, Undefined}
    THEN setProperty(inline, el, cvProp, val)
    ELSE inline

\* the second watcher's callback, lines 82-96
ApplyWrite(inline, val, el) ==
    IF cvProp # Null
    THEN IF val \in {Null, Undefined}
         THEN removeProperty(inline, el, cvProp)
         ELSE setProperty(inline, el, cvProp, val)
    ELSE inline

\* queueing a watcher job or a microtask that may be queued already
Enqueue(q, j) == IF j \in SeqRange(q) THEN q ELSE Append(q, j)

EnqueueIf_Always(cond, q, j) == Enqueue(q, j)

EnqueueIf(cond, q, j) == IF cond THEN Enqueue(q, j) ELSE q

\* useMutationObserver, lines 58-63: the observer is on elRef's element and
\* gets a record when that element's style attribute changes
Observed(before, after) == cvObserve /\ before[elRef] # after[elRef]

\* A task makes up to MaxChanges changes before the microtasks run, and no
\* task begins while microtasks wait.
CvInTask == cvMicro = <<>> \/ (0 < cvChanges /\ cvChanges < MaxChanges)

\* The application assigns the bound value.
CvAssign(v) ==
    /\ CvInTask
    /\ variable' = v
    /\ cvJobs' = EnqueueIf(v # variable, cvJobs, "write")
    /\ cvMicro' = EnqueueIf(cvJobs' # <<>>, cvMicro, "flush")
    /\ cvChanges' = IF cvMicro' = <<>> THEN 0 ELSE cvChanges + 1
    /\ cvLast' = CvStep("assign", "")
    /\ cvTrail' = CvTrailAfterChange
    /\ UNCHANGED <<cvInitial, cvObserve, cvSheet, cvTarget, cvProp, cvInline,
                   cvReadOld, cvWriteOld>>
    /\ UNCHANGED cvOthers

\* The target comes to resolve to another element: both watchers have elRef
\* as a source, the first was created first.
CvSetTarget(t) ==
    /\ CvInTask
    /\ t # cvTarget
    /\ cvTarget' = t
    /\ cvJobs' = Enqueue(Enqueue(cvJobs, "read"), "write")
    /\ cvMicro' = Enqueue(cvMicro, "flush")
    /\ cvChanges' = IF cvMicro' = <<>> THEN 0 ELSE cvChanges + 1
    /\ cvLast' = CvStep("target", "")
    /\ cvTrail' = CvTrailAfterChange
    /\ UNCHANGED <<cvInitial, cvObserve, cvSheet, cvProp, variable, cvInline,
                   cvReadOld, cvWriteOld>>
    /\ UNCHANGED cvOthers

\* The property name changes: only the first watcher has it as a source.
CvSetProp(p) ==
    /\ CvInTask
    /\ p # cvProp
    /\ cvProp' = p
    /\ cvJobs' = Enqueue(cvJobs, "read")
    /\ cvMicro' = Enqueue(cvMicro, "flush")
    /\ cvChanges' = IF cvMicro' = <<>> THEN 0 ELSE cvChanges + 1
    /\ cvLast' = CvStep("prop", "")
    /\ cvTrail' = CvTrailAfterChange
    /\ UNCHANGED <<cvInitial, cvObserve, cvSheet, cvTarget, variable, cvInline,
                   cvReadOld, cvWriteOld>>
    /\ UNCHANGED cvOthers

\* Something else writes an element's inline style.
CvExternalStyle(e, p, v) ==
    /\ CvInTask
    /\ cvInline[e][p] # v
    /\ cvInline' = setProperty(cvInline, e, p, v)
    /\ cvMicro' = EnqueueIf(Observed(cvInline, cvInline'), cvMicro, "observe")
    /\ cvChanges' = IF cvMicro' = <<>> THEN 0 ELSE cvChanges + 1
    /\ cvLast' = CvStep("external", "")
    /\ cvTrail' = CvTrailAfterChange
    /\ UNCHANGED <<cvInitial, cvObserve, cvSheet, cvTarget, cvProp, variable,
                   cvReadOld, cvWriteOld, cvJobs>>
    /\ UNCHANGED cvOthers

\* the microtasks left once the flush has run one job and jobs are left or not
CvAfterJob(jobs, observed) ==
    EnqueueIf(observed, IF jobs = <<>> THEN Tail(cvMicro) ELSE cvMicro, "observe")

\* The flush runs the job of the first watcher, lines 66-77.
CvReadJob ==
    /\ cvMicro # <<>> /\ Head(cvMicro) = "flush"
    /\ cvJobs # <<>> /\ Head(cvJobs) = "read"
    /\ LET new == <<elRef, cvProp>>
       IN  IF new # cvReadOld
           THEN /\ cvInline' = RemoveOld(cvInline, cvReadOld)
                /\ variable' = ReadAfterChange(cvInline, cvReadOld)
                /\ cvReadOld' = new
                /\ cvLast' = [CvStep("read", "") EXCEPT !.old = cvReadOld,
                                  !.found = cvInline, !.cur = variable]
           ELSE /\ UNCHANGED <<cvInline, variable, cvReadOld>>
                /\ cvLast' = CvStep("skip", "")
    /\ cvJobs' = EnqueueIf(variable' # variable, Tail(cvJobs), "write")
    /\ cvMicro' = CvAfterJob(cvJobs', Observed(cvInline, cvInline'))
    /\ cvChanges' = 0
    /\ cvTrail' = Append(cvTrail, CvRan("read", variable' # variable))
    /\ UNCHANGED <<cvInitial, cvObserve, cvSheet, cvTarget, cvProp, cvWriteOld>>
    /\ UNCHANGED cvOthers

\* The flush runs the job of the second watcher, lines 80-98.
CvWriteJob ==
    /\ cvMicro # <<>> /\ Head(cvMicro) = "flush"
    /\ cvJobs # <<>> /\ Head(cvJobs) = "write"
    /\ LET new == <<variable, elRef>>
       IN  IF new # cvWriteOld
           THEN /\ cvInline' = ApplyWrite(cvInline, variable, elRef)
                /\ cvWriteOld' = new
                /\ cvLast' = CvStep("write",
                                     IF cvProp # Null THEN cvInline[elRef][cvProp] ELSE "")
           ELSE /\ UNCHANGED <<cvInline, cvWriteOld>>
                /\ cvLast' = CvStep("skip", "")
    /\ cvJobs' = Tail(cvJobs)
    /\ cvMicro' = CvAfterJob(cvJobs', Observed(cvInline, cvInline'))
    /\ cvChanges' = 0
    /\ cvTrail' = Append(cvTrail, CvRan("write", cvInline' # cvInline))
    /\ UNCHANGED <<cvInitial, cvObserve, cvSheet, cvTarget, cvProp, variable, cvReadOld>>
    /\ UNCHANGED cvOthers

\* The mutation observer's callback, line 59: updateCssVar.
CvObserverCallback ==
    /\ cvMicro # <<>> /\ Head(cvMicro) = "observe"
    /\ variable' = updateCssVar(variable, cvInline)
    /\ cvJobs' = EnqueueIf(variable' # variable, cvJobs, "write")
    /\ cvMicro' = EnqueueIf(cvJobs' # <<>>, Tail(cvMicro), "flush")
    /\ cvChanges' = 0
    /\ cvLast' = CvStep("observe", "")
    /\ cvTrail' = Append(cvTrail, CvRan("observe", variable' # variable))
    /\ UNCHANGED <<cvInitial, cvObserve, cvSheet, cvTarget, cvProp, cvInline,
                   cvReadOld, cvWriteOld>>
    /\ UNCHANGED cvOthers

\* the inline styles the composable may find
CvStyles == [CvElements -> [CvProps -> {"", "red"}]]

\* after construction: both watchers are immediate, so updateCssVar has run
\* on the initial value and the second watcher's callback after it
CvInit ==
    /\ cvInitial \in {Undefined, "red"}
    /\ cvObserve \in BOOLEAN
    /\ cvSheet \in {[e \in CvElements |-> [p \in CvProps |-> ""]],
                    [e \in CvElements |-> [p \in CvProps |->
                        IF e = "root" /\ p = "--a" THEN CvSheetValue ELSE ""]]}
    /\ cvTarget \in {Null, "e1"}
    /\ cvProp \in CvProps \cup {Null}
    /\ \E found \in CvStyles :
        /\ variable = updateCssVar(cvInitial, found)
        /\ cvInline = ApplyWrite(found, variable, elRef)
        /\ cvMicro = IF Observed(found, cvInline) THEN <<"observe">> ELSE <<>>
    /\ cvReadOld = <<elRef, cvProp>>
    /\ cvWriteOld = <<variable, elRef>>
    /\ cvJobs = <<>>
    /\ cvChanges = 0
    /\ cvLast = CvNoStep
    /\ cvTrail = <<>>

\* useCssVar not in use
CvPark ==
    /\ cvInitial = Undefined
    /\ cvObserve = FALSE
    /\ cvSheet = [e \in CvElements |-> [p \in CvProps |-> ""]]
    /\ cvTarget = Null
    /\ cvProp = Null
    /\ variable = Undefined
    /\ cvInline = [e \in CvElements |-> [p \in CvProps |-> ""]]
    /\ cvReadOld = <<"root", Null>>
    /\ cvWriteOld = <<Undefined, "root">>
    /\ cvJobs = <<>>
    /\ cvMicro = <<>>
    /\ cvChanges = 0
    /\ cvLast = CvNoStep
    /\ cvTrail = <<>>

CvNext ==
    \/ \E v \in CvValues \cup {Null, ""} : CvAssign(v)
    \/ \E t \in {Null, "e1"} : CvSetTarget(t)
    \/ \E p \in CvProps \cup {Null} : CvSetProp(p)
    \/ \E e \in CvElements, p \in CvProps, v \in {"", "red"} : CvExternalStyle(e, p, v)
    \/ CvReadJob
    \/ CvWriteJob
    \/ CvObserverCallback

(***************************************************************************)
(*                            useActiveElement                             *)
(*                                                                         *)
(* The document holds a plain input, an open shadow host "host" whose      *)
(* shadow tree holds "inner" and a second open host "host2" (holding       *)
(* "inner2"), and a closed shadow host "closed" holding "secret".  Every   *)
(* one of them can take the focus; "body" stands for no element having it. *)
(***************************************************************************)

AeElements == {"body", "input", "host", "inner", "host2", "inner2", "closed", "secret"}

\* the shadow host in whose shadow tree an element is, null for the
\* elements of the document itself
AeHost ==
    [e \in AeElements |->
        CASE e = "inner" -> "host"
          [] e = "host2" -> "host"
          [] e = "inner2" -> "host2"
          [] e = "secret" -> "closed"
          [] OTHER -> Null]

\* element.shadowRoot: the element itself stands for its open shadow root;
\* null for a closed root and for no root
shadowRoot(e) == IF e \in {"host", "host2"} THEN e ELSE Null

\* The platform's activeElement of a scope (null for the document, a host
\* for its shadow root) when f has the focus: f or the host around f that
\* is in the scope, null if the focus is not inside the scope.
RECURSIVE ActiveIn(_, _)
ActiveIn(scope, f) ==
    IF AeHost[f] = scope THEN f
    ELSE IF AeHost[f] = Null THEN Null
    ELSE ActiveIn(scope, AeHost[f])

\* getDeepActiveElement, lines 69-70: the while loop
RECURSIVE Descend(_, _)
Descend(element, f) ==
    IF element # Null /\ shadowRoot(element) # Null
    THEN Descend(ActiveIn(shadowRoot(element), f), f)
    ELSE element

\* getDeepActiveElement, lines 65-73
getDeepActiveElement(f) ==
    LET element == ActiveIn(Null, f)
    IN  IF aeDeep THEN Descend(element, f) ELSE element

AeNoStep == [kind |-> "init", before |-> Undefined]

\* trigger, lines 82-84, with f having the focus
trigger(f) == activeElement' = getDeepActiveElement(f)

\* An element gets the focus while none had it: the window gets focus.
AeFocusIn(t) ==
    /\ aeWinFocused
    /\ aeTransit = Null
    /\ aeFocus = "body"
    /\ aeFocus' = t
    /\ trigger(t)
    /\ aeLast' = [kind |-> "focus", before |-> activeElement]
    /\ UNCHANGED <<aeDeep, aeRemoval, aeTransit, aeWinFocused>>
    /\ UNCHANGED aeOthers

\* The focus leaves an element for another one: the window gets blur with
\* that one as relatedTarget, and the listener of lines 115-119 returns.
AeBlurRelated(t) ==
    /\ aeWinFocused
    /\ aeTransit = Null
    /\ aeFocus # "body"
    /\ t # aeFocus
    /\ aeFocus' = "body"
    /\ aeTransit' = t
    /\ UNCHANGED activeElement
    /\ aeLast' = [kind |-> "blurRelated", before |-> activeElement]
    /\ UNCHANGED <<aeDeep, aeRemoval, aeWinFocused>>
    /\ UNCHANGED aeOthers

\* The focus arrives at the element it was moving to: the window gets focus.
AeFocusArrives ==
    /\ aeTransit # Null
    /\ aeFocus' = aeTransit
    /\ aeTransit' = Null
    /\ trigger(aeTransit)
    /\ aeLast' = [kind |-> "focus", before |-> activeElement]
    /\ UNCHANGED <<aeDeep, aeRemoval, aeWinFocused>>
    /\ UNCHANGED aeOthers

\* The focused element is blurred with nothing taking the focus: the window
\* gets blur with a null relatedTarget.
AeBlurNull ==
    /\ aeWinFocused
    /\ aeTransit = Null
    /\ aeFocus # "body"
    /\ aeFocus' = "body"
    /\ trigger("body")
    /\ aeLast' = [kind |-> "blurNull", before |-> activeElement]
    /\ UNCHANGED <<aeDeep, aeRemoval, aeTransit, aeWinFocused>>
    /\ UNCHANGED aeOthers

\* The window loses the focus: blur with a null relatedTarget, and the
\* document keeps its active element.
AeWindowBlur ==
    /\ aeWinFocused
    /\ aeTransit = Null
    /\ aeWinFocused' = FALSE
    /\ trigger(aeFocus)
    /\ aeLast' = [kind |-> "blurNull", before |-> activeElement]
    /\ UNCHANGED <<aeDeep, aeRemoval, aeFocus, aeTransit>>
    /\ UNCHANGED aeOthers

\* The window gets the focus back.
AeWindowFocus ==
    /\ ~aeWinFocused
    /\ aeWinFocused' = TRUE
    /\ trigger(aeFocus)
    /\ aeLast' = [kind |-> "focus", before |-> activeElement]
    /\ UNCHANGED <<aeDeep, aeRemoval, aeFocus, aeTransit>>
    /\ UNCHANGED aeOthers

\* onElementRemoval(activeElement, trigger), lines 133-135: the callback
\* runs when the tracked element is the one removed
RemovalTriggers(removed) == aeRemoval /\ activeElement = removed

\* The focused element is taken out of the document (and put back later,
\* unfocused): no focus event is dispatched.
AeFocusedRemoved ==
    /\ aeTransit = Null
    /\ aeFocus # "body"
    /\ aeFocus' = "body"
    /\ IF RemovalTriggers(aeFocus) THEN trigger("body") ELSE UNCHANGED activeElement
    /\ aeLast' = [kind |-> "removed", before |-> activeElement]
    /\ UNCHANGED <<aeDeep, aeRemoval, aeTransit, aeWinFocused>>
    /\ UNCHANGED aeOthers

\* after construction: the call of line 138
AeInit ==
    /\ aeDeep \in BOOLEAN
    /\ aeRemoval \in BOOLEAN
    /\ aeFocus \in AeElements
    /\ aeTransit = Null
    /\ aeWinFocused = TRUE
    /\ activeElement = getDeepActiveElement(aeFocus)
    /\ aeLast = AeNoStep

\* useActiveElement not in use
AePark ==
    /\ aeDeep = TRUE
    /\ aeRemoval = FALSE
    /\ aeFocus = "body"
    /\ aeTransit = Null
    /\ aeWinFocused = TRUE
    /\ activeElement = Undefined
    /\ aeLast = AeNoStep

AeNext ==
    \/ \E t \in AeElements \ {"body"} : AeFocusIn(t)
    \/ \E t \in AeElements \ {"body"} : AeBlurRelated(t)
    \/ AeFocusArrives
    \/ AeBlurNull
    \/ AeWindowBlur
    \/ AeWindowFocus
    \/ AeFocusedRemoved

(***************************************************************************)
(*                              useFavicon                                 *)
(***************************************************************************)

\* An icon path is kept as the parts its dots separate and what follows the
\* file name (a query); a value of the ref is a string, null or undefined.
Icon(parts, query) == [kind |-> "string", parts |-> parts, query |-> query]

FvNull == [kind |-> "null", parts |-> <<>>, query |-> ""]

FvUndefined == [kind |-> "undefined", parts |-> <<>>, query |-> ""]

\* the icons the application uses: "a.ico", "b.png?v=2", "favicon"
FvIcons == {Icon(<<"a", "ico">>, ""), Icon(<<"b", "png">>, "?v=2"), Icon(<<"favicon">>, "")}

FvValues == FvIcons \cup {FvNull, FvUndefined}

RECURSIVE Join(_)
Join(parts) ==
    IF Len(parts) = 0 THEN ""
    ELSE IF Len(parts) = 1 THEN parts[1]
    ELSE parts[1] \o "." \o Join(Tail(parts))

\* the string an icon is
IconString(icon) == Join(icon.parts) \o icon.query

\* A rel attribute is kept as the pieces the matching can tell apart:
\* "icon", "shortcut icon", "apple-touch-icon", "stylesheet".
FvRels == {<<"icon">>, <<"apple-touch-", "icon">>}

FvFoundRels == {<<"icon">>, <<"shortcut ", "icon">>, <<"stylesheet">>}

\* the link elements a page may have before the composable runs
FvFoundLinks == [rel : FvFoundRels, href : {"/old.ico"}, type : {"image/x-icon"}]

FvFoundHeads ==
    {<<>>} \cup {<<l>> : l \in FvFoundLinks} \cup {<<k, l>> : k, l \in FvFoundLinks}

\* the selector link[rel*="..."], line 90: the attribute contains the value
RelContains(attr, rel) ==
    \E i \in 0..(Len(attr) - Len(rel)) : SubSeq(attr, i + 1, i + Len(rel)) = rel

\* querySelectorAll, lines 89-90: the positions of the links that match
Matching(head) == {k \in 1..Len(head) : RelContains(head[k].rel, fvRel)}

\* `${baseUrl}${icon}`, lines 99 and 109
Href(icon) == fvBaseUrl \o IconString(icon)

\* icon.split('.').pop(), line 101: what follows the last dot of the string,
\* the whole string when it has none
IconType(icon) == icon.parts[Len(icon.parts)] \o icon.query

\* applyIcon, lines 86-110: the links of the head it leaves
applyIcon(head, icon) ==
    IF ~fvDocument THEN head
    ELSE IF Matching(head) = {}
    THEN Append(head, [rel |-> fvRel, href |-> Href(icon),
                       type |-> "image/" \o IconType(icon)])
    ELSE [k \in 1..Len(head) |->
             IF k \in Matching(head) THEN [head[k] EXCEPT !.href = Href(icon)]
             ELSE head[k]]

\* the watcher's callback, lines 115-119: whether it calls applyIcon
CallbackApplies(i, o) == i.kind = "string" /\ i # o

NotMatching(link) == ~RelContains(link.rel, fvRel)

WatchCallback_RemovesOnNull(head, i, o) ==
    IF i.kind = "string"
    THEN IF i # o THEN applyIcon(head, i) ELSE head
    ELSE SelectSeq(head, NotMatching)

\* the watcher's callback, lines 115-119: the links of the head it leaves
WatchCallback(head, i, o) ==
    IF CallbackApplies(i, o) THEN applyIcon(head, i) ELSE head

FvNoStep == [kind |-> "none", value |-> FvUndefined, before |-> <<>>]

\* what the callback did: the value it got and the head it found
FvRan(i, o, head) ==
    [kind |-> IF CallbackApplies(i, o) THEN "apply" ELSE "skip", value |-> i,
     before |-> head]

\* The application assigns the ref; a change queues the watcher.
FvAssign(v) ==
    /\ favicon' = v
    /\ fvQueued' = (fvQueued \/ v # favicon)
    /\ UNCHANGED <<fvDocument, fvBaseUrl, fvRel, fvHead, fvSeen, fvCreated, fvLast>>
    /\ UNCHANGED fvOthers

\* The flush runs the watcher (lines 113-122): its callback runs when the
\* value is not the one it saw last.
FvFlush ==
    /\ fvQueued
    /\ fvQueued' = FALSE
    /\ fvSeen' = favicon
    /\ IF favicon # fvSeen
       THEN /\ fvHead' = WatchCallback(fvHead, favicon, fvSeen)
            /\ fvCreated' = IF Len(fvHead') > Len(fvHead)
                            THEN fvCreated + 1
                            ELSE fvCreated
            /\ fvLast' = FvRan(favicon, fvSeen, fvHead)
       ELSE UNCHANGED <<fvHead, fvCreated, fvLast>>
    /\ UNCHANGED <<fvDocument, fvBaseUrl, fvRel, favicon>>
    /\ UNCHANGED fvOthers

\* after construction: the watcher is immediate (line 121), so its callback
\* has run on the initial value, with undefined as the old one
FvInit ==
    /\ fvDocument \in BOOLEAN
    /\ fvBaseUrl \in {"", "/static/"}
    /\ fvRel \in FvRels
    /\ favicon \in FvValues \ {FvUndefined}
    /\ \E found \in FvFoundHeads :
          /\ fvHead = WatchCallback(found, favicon, FvUndefined)
          /\ fvCreated = Len(fvHead) - Len(found)
          /\ fvLast = FvRan(favicon, FvUndefined, found)
    /\ fvSeen = favicon
    /\ fvQueued = FALSE

\* useFavicon not in use
FvPark ==
    /\ fvDocument = FALSE
    /\ fvBaseUrl = ""
    /\ fvRel = <<"icon">>
    /\ fvHead = <<>>
    /\ favicon = FvNull
    /\ fvSeen = FvNull
    /\ fvQueued = FALSE
    /\ fvCreated = 0
    /\ fvLast = FvNoStep

FvNext ==
    \/ \E v \in FvValues : FvAssign(v)
    \/ FvFlush


InitFullscreen ==
    FsInit /\ HvPark /\ ClPark /\ LcPark /\ NwPark /\ CvPark /\ AePark /\ FvPark

SpecFullscreen == InitFullscreen /\ [][FsNext]_vars

InitFullscreenConcurrent ==
    FsInitConcurrent /\ HvPark /\ ClPark /\ LcPark /\ NwPark /\ CvPark /\ AePark /\ FvPark

SpecFullscreenConcurrent == InitFullscreenConcurrent /\ [][FsNextConcurrent]_vars

InitHover ==
    HvInit /\ FsPark /\ ClPark /\ LcPark /\ NwPark /\ CvPark /\ AePark /\ FvPark

InitClipboard ==
    ClInit /\ FsPark /\ HvPark /\ LcPark /\ NwPark /\ CvPark /\ AePark /\ FvPark

SpecClipboard == InitClipboard /\ [][ClNext]_vars

InitLocation ==
    LcInit /\ FsPark /\ HvPark /\ ClPark /\ NwPark /\ CvPark /\ AePark /\ FvPark

SpecLocation == InitLocation /\ [][LcNext]_vars

InitNetwork ==
    NwInit /\ FsPark /\ HvPark /\ ClPark /\ LcPark /\ CvPark /\ AePark /\ FvPark

SpecNetwork == InitNetwork /\ [][NwNext]_vars

InitCssVar ==
    CvInit /\ FsPark /\ HvPark /\ ClPark /\ LcPark /\ NwPark /\ AePark /\ FvPark

SpecCssVar == InitCssVar /\ [][CvNext]_vars

InitActiveElement ==
    AeInit /\ FsPark /\ HvPark /\ ClPark /\ LcPark /\ NwPark /\ CvPark /\ FvPark

SpecActiveElement == InitActiveElement /\ [][AeNext]_vars

SpecHover == InitHover /\ [][HvNext]_vars

InitFavicon ==
    FvInit /\ FsPark /\ HvPark /\ ClPark /\ LcPark /\ NwPark /\ CvPark /\ AePark

SpecFavicon == InitFavicon /\ [][FvNext]_vars

(***************************************************************************)
(*                     useFullscreen: the properties                       *)
(***************************************************************************)

\* What the platform reports through its detection properties, read off the
\* fullscreen stack and not through the name tables: a document of the
\* blink and gecko families says whether the page is in fullscreen and
\* which element is; on the iPhone only the video the target reference holds
\* says whether it is displayed in fullscreen, and no fullscreen element is
\* reported.
PlatformReportsFullscreen ==
    CASE fsProfile \in {"blink", "gecko"} -> fsStack # <<>>
      [] fsProfile = "iosVideo" -> fsTargetSet /\ FsTop = "target"
      [] OTHER -> FALSE

ReportedFullscreenElement ==
    IF fsProfile \in {"blink", "gecko"} THEN FsTop ELSE Undefined

\* C1: on a supported controller whose platform calls resolve, the script
\* awaiting each call: when exit() called right after enter() has returned,
\* isFullscreen is false; when enter() called right after enter() has
\* returned, it issued no platform request, invoked no platform exit and left
\* isFullscreen as it found it.
C1_EnterExitAndSecondEnter ==
    \A c \in Callers :
        LET r == fsCall[c]
        IN  (isSupported /\ r.pc = "returned" /\ r.prev = "enter") =>
                /\ (r.op = "exit" => ~isFullscreen)
                /\ (r.op = "enter" => ~r.req /\ ~r.ext /\ isFullscreen = r.preFs)

\* C1's case: exit(), called right after an awaited enter(), has called the
\* platform's exit method and returned.
C1_Witness ==
    \E c \in Callers :
        /\ isSupported
        /\ fsCall[c].pc = "returned"
        /\ fsCall[c].prev = "enter"
        /\ fsCall[c].op = "exit"
        /\ fsCall[c].ext

C9_ExitBeforeRequest ==
    \A c \in Callers :
        LET r == fsCall[c]
        IN  (r.fn = "enter" /\ r.prePage = "other" /\ ~r.preFs /\ r.req) => r.ext

\* C10: when handlerCallback has just run, isFullscreen is false if the
\* platform reports no fullscreen, true if it reports fullscreen and reports
\* the target as the fullscreen element, and what it was before otherwise.
C10_HandlerReconciles ==
    fsLast.kind = "handler" =>
        IF ~PlatformReportsFullscreen THEN ~isFullscreen
        ELSE IF fsTargetSet /\ ReportedFullscreenElement = "target" THEN isFullscreen
        ELSE isFullscreen = fsLast.before

\* C10's case: the handler has just set a true flag to false, the page
\* having left fullscreen.
C10_Witness ==
    /\ fsLast.kind = "handler"
    /\ fsLast.before
    /\ ~isFullscreen
    /\ fsStack = <<>>

C12_UnsupportedCallsDoNothing ==
    \A c \in Callers :
        LET r == fsCall[c]
        IN  (r.pc # "idle" /\ ~r.sup) =>
                /\ r.pc = "returned"
                /\ ~r.req
                /\ ~r.ext
                /\ isFullscreen = r.preFs

\* C12's case: exit() was called with isFullscreen true and the page in
\* fullscreen, the target reference holding no element any more.
C12_Witness ==
    \E c \in Callers :
        /\ fsCall[c].pc = "returned"
        /\ ~fsCall[c].sup
        /\ fsCall[c].op = "exit"
        /\ fsCall[c].preFs
        /\ fsStack # <<>>

\* The target is displayed in fullscreen, read off the fullscreen stack.
TargetInFullscreen == "target" \in SeqRange(fsStack)

C2_HoverFlipsAfterDelay ==
    [][ /\ (~isHovered /\ isHovered') =>
              /\ hvLast'.kind = "enter"
              /\ hvNow' - hvLast'.at >= hvDelayEnter
        /\ (isHovered /\ ~isHovered' /\ hvLast'.kind # "removal") =>
              /\ hvLast'.kind = "leave"
              /\ hvNow' - hvLast'.at >= hvDelayLeave ]_vars

\* C2's case: with a delay on entering, the state has become true after a
\* mouseenter, the delay having elapsed.
C2_Witness ==
    /\ isHovered
    /\ hvDelayEnter > 0
    /\ hvLast.kind = "enter"
    /\ hvNow - hvLast.at >= hvDelayEnter
    /\ hvPending = {}

\* C15: the platform holds at most one hover timer, and the one it holds was
\* set by the most recent enter, leave or removal event: it is due that
\* event's delay after it and makes the transition of that event.
C15_OnePendingTimerOfLastEvent ==
    /\ Cardinality(hvPending) <= 1
    /\ \A t \in hvPending :
          /\ t.entering = (hvLast.kind = "enter")
          /\ t.due = hvLast.at + HoverDelay(t.entering)

\* C15's case: an event arrived while the timer of an earlier event was
\* pending, and its own timer is the one pending now.
C15_Witness ==
    /\ hvLast.pending # {}
    /\ hvLast.kind = "leave"
    /\ isHovered
    /\ hvPending = {[due |-> hvLast.at + hvDelayLeave, entering |-> FALSE]}

\* C16 as stated: with triggerOnRemoval, once the removal of the target has
\* been handled isHovered is false and no transition to true is pending.
C16_RemovalForcesFalseAtOnce ==
    hvLast.kind = "removal" =>
        /\ ~isHovered
        /\ \A t \in hvPending : ~t.entering

\* C16, amended: with triggerOnRemoval, the removal of the target is handled
\* as a leave: no transition to true is pending afterwards, isHovered is
\* false at once when delayLeave is 0, and otherwise it stays as it was only
\* while the transition to false, due delayLeave after the removal, is pending.
C16_RemovalHandledAsLeave ==
    hvLast.kind = "removal" =>
        /\ \A t \in hvPending : ~t.entering
        /\ hvDelayLeave = 0 => ~isHovered
        /\ isHovered =>
              hvPending = {[due |-> hvLast.at + hvDelayLeave, entering |-> FALSE]}

\* C16's case: the target is removed while hovered, with a transition to
\* true pending and a leave delay; the flag is still true after the removal.
C16_Witness ==
    /\ hvRemoval
    /\ hvLast.kind = "removal"
    /\ \E t \in hvLast.pending : t.entering
    /\ hvDelayLeave > 0
    /\ isHovered
    /\ hvPending # {}

\* C25: when the last event is a mouseenter or a mouseleave and its delay is
\* 0, or more than its delay has passed since it, isHovered is the direction
\* of that event (true for enter, false for leave) and no timer is pending.
C25_SettlesOnLastEvent ==
    LET entering == hvLast.kind = "enter"
    IN  (/\ hvLast.kind \in {"enter", "leave"}
         /\ \/ HoverDelay(entering) = 0
            \/ hvNow > hvLast.at + HoverDelay(entering)) =>
            /\ isHovered = entering
            /\ hvPending = {}

\* C25's case: a mouseenter came while the timer of an earlier mouseleave
\* was pending, its own delay has passed since, and the flag is true with no
\* timer left.
C25_Witness ==
    /\ hvLast.kind = "enter"
    /\ \E t \in hvLast.pending : ~t.entering
    /\ hvDelayEnter > 0
    /\ hvNow > hvLast.at + hvDelayEnter
    /\ isHovered
    /\ hvPending = {}

(***************************************************************************)
(*                      useClipboard: the properties                       *)
(***************************************************************************)

\* C3: once a copy has completed, and until another completes, the tracked
\* text is the copied value; copied is true as long as fewer than
\* copiedDuring ms have passed since that copy, and false once more than
\* copiedDuring ms have passed (at copiedDuring ms sharp the timer is due).
C3_CopiedForCopiedDuring ==
    clLast.at >= 0 =>
        /\ clText = clLast.value
        /\ (clNow - clLast.at < clDuring => copied)
        /\ (clNow - clLast.at > clDuring => ~copied)

\* C3's case: copy("x") completed, more than copiedDuring ms have passed and
\* copied is false again.
C3_Witness ==
    /\ clLast.at >= 0
    /\ clLast.value = "x"
    /\ clText = "x"
    /\ clNow - clLast.at > clDuring
    /\ ~copied

\* C13: the timer that is pending is the one of the most recent completed
\* copy, due copiedDuring ms after it; and copied goes from true to false only
\* when at least copiedDuring ms have passed since the most recent completed
\* copy.
C13_TimerRestartedByEveryCopy ==
    /\ [](clTimeout.set => clTimeout.due = clLast.at + clDuring)
    /\ [][(copied /\ ~copied') => clNow' - clLast'.at >= clDuring]_vars

\* C13's case: a copy completed while the timer of an earlier copy was
\* pending; the time that timer was due has come, and copied is still true.
C13_Witness ==
    /\ clLast.replaced.set
    /\ clLast.replaced.due <= clNow
    /\ clNow - clLast.at < clDuring
    /\ copied
    /\ clTimeout.set

\* how copy() is to go about a copy: the modern write is attempted when the
\* API is present and the permission, at the call, is granted or prompt; the
\* legacy copy is made when it is not attempted or is rejected
ClPathAsStated ==
    /\ clPath.wrote = (clApi /\ clPath.allowed)
    /\ clPath.legacy = (~clPath.wrote \/ clPath.rejected)

\* C14, as the spec states it: a completed copy was made as said above, and
\* the legacy copy was made only with the legacy option enabled.
C14_LegacyOnlyWhenEnabled ==
    clLast.at >= 0 => (ClPathAsStated /\ (clPath.legacy => clLegacy))

\* C14, amended: a completed copy was made as said above, whatever the
\* legacy option; the option is needed only for a copy without the API.
C14_LegacyWhateverTheOption ==
    clLast.at >= 0 => (ClPathAsStated /\ (~clApi => clLegacy))

\* C14's case: with the legacy option disabled, the modern write was
\* rejected and the legacy copy was made.
C14_Witness ==
    /\ clLast.at >= 0
    /\ ~clLegacy
    /\ clPath.wrote
    /\ clPath.rejected
    /\ clPath.legacy

\* C28: right after copy() was called where isSupported is false, or with
\* null/undefined and no source, the call has returned, the clipboard, text,
\* copied and the reset timer are as the call found them, and no write is
\* pending.
C28_CopyWithoutSupportOrValue ==
    (clEntry.done /\ (~clEntry.supported \/ clEntry.value = Null)) =>
        /\ clCall[clEntry.caller].pc = "idle"
        /\ clBoard = clEntry.board
        /\ clText = clEntry.text
        /\ copied = clEntry.copied
        /\ clTimeout = clEntry.timeout

\* C28's case: copy() was called with no value while the flag of an earlier
\* copy was set and its timer pending.
C28_Witness ==
    /\ clEntry.done
    /\ clEntry.supported
    /\ clEntry.value = Null
    /\ copied
    /\ clTimeout.set
    /\ clText # ""

\* C28's other case: copy() was called with a string where neither the
\* clipboard API nor the legacy fallback is available.
C28_UnsupportedReached == clEntry.done /\ ~clEntry.supported /\ clEntry.value # Null

(***************************************************************************)
(*                   useBrowserLocation: the properties                    *)
(***************************************************************************)

\* C4, as the spec states it: right after a field has been assigned a value
\* that differs from the platform's, the platform's property holds that
\* value.
C4_PlatformHoldsValueAtOnce ==
    (lcLast.kind = "assign" /\ lcLast.value # lcLast.was) =>
        lcLoc[lcLast.field] = lcLast.value

\* C4, amended: right after the assignment the platform's property is what
\* it was; once the watchers have run (in the microtask that follows, before
\* any other event), the platform's property holds the value assigned,
\* provided the assignment was the only one since the last run and changed
\* the field.
C4_PlatformHoldsValueAfterFlush ==
    /\ lcLast.kind = "assign" => lcLoc[lcLast.field] = lcLast.was
    /\ (lcLast.kind = "flush" /\ lcLast.single /\ lcLast.fresh) =>
            lcLoc[lcLast.field] = lcLast.value

\* C4's case: a single assignment that changed the field to a value other
\* than the platform's, and the watchers have run.
C4_Witness ==
    /\ lcLast.kind = "flush"
    /\ lcLast.single
    /\ lcLast.fresh
    /\ lcLast.value # lcLast.was
    /\ lcLoc[lcLast.field] = lcLast.value

\* C17: a field assigned a value that differs from the platform's has its
\* watcher pending, and once the watchers have run after the assignment the
\* platform's property was assigned that value exactly once when it differed
\* from the platform's, and not at all when it was equal; the watchers that
\* run after a rebuild of the state assign nothing.
C17_OneWriteWhenDiffers ==
    /\ (lcLast.kind = "assign" /\ lcLast.value # lcLast.was) => LcRuns(lcLast.field)
    /\ (lcLast.kind = "flush" /\ lcLast.single) =>
          /\ lcLast.writes = IF lcLast.value # lcLast.was THEN {lcLast.field} ELSE {}
          /\ lcLast.value # lcLast.was => lcLoc[lcLast.field] = lcLast.value
    /\ lcLast.kind = "rebuilt" => lcLast.writes = {}

\* C18: the trigger is always "load", "popstate" or "hashchange"; right
\* after a rebuild of the state (the one of initialization, for "load", and
\* the one of each popstate or hashchange event handled) the trigger is the
\* name of what caused it, and every writable field, the history state and
\* length and the origin are the platform's current values.
C18_RebuildMirrorsPlatform ==
    /\ lcTrigger \in {"load", "popstate", "hashchange"}
    /\ lcLast.kind = "rebuild" =>
          /\ lcTrigger = lcLast.event
          /\ lcRefs = lcLoc
          /\ lcState.state = lcHistory.state
          /\ lcState.length = lcHistory.length
          /\ lcState.origin = lcOrigin

\* C18's case: a popstate event has been handled after the location and the
\* history had changed since the state was built at initialization.
C18_Witness ==
    /\ lcLast.kind = "rebuild"
    /\ lcLast.event = "popstate"
    /\ lcTrigger = "popstate"
    /\ lcRefs # lcWatched
    /\ lcState.state = "entry"
    /\ lcState.length = MaxHistory

(***************************************************************************)
(*                       useNetwork: the properties                        *)
(***************************************************************************)

\* C5, as the spec states it: where the platform has no connection API,
\* every quality field is undefined.
C5_AllQualityUndefined ==
    ~nwIsSupported => \A k \in QualityFields : nw[k] = Undefined

\* C5, amended: where the platform has no connection API, downlink,
\* downlinkMax, effectiveType and rtt are undefined, saveData is false and
\* type is 'unknown', whatever online and offline events have been handled.
C5_QualityStaysInitial ==
    ~nwIsSupported =>
        /\ \A k \in {"downlink", "downlinkMax", "effectiveType", "rtt"} : nw[k] = Undefined
        /\ nw["saveData"] = "false"
        /\ nw["type"] = "unknown"

\* C5's case: no connection API, and both an offline and an online event
\* have been handled.
C5_Witness ==
    /\ nwWindow
    /\ ~nwIsSupported
    /\ nw.isOnline
    /\ nw.offlineAt # NoStamp
    /\ nw.onlineAt # NoStamp
    /\ nw.onlineAt # nw.offlineAt

\* C19: when the listener that ran last is the offline one, isOnline is
\* false and offlineAt is the time it ran; when it is the online one,
\* isOnline is true and onlineAt is the time it ran; and with no online or
\* offline event left to handle, isOnline is what the most recent of them
\* said, which is navigator.onLine.
C19_OnlineStateFollowsEvents ==
    /\ nwLast.kind = "offline" =>
          (~nw.isOnline /\ nw.offlineAt = Stamp(nwLast.at))
    /\ nwLast.kind = "online" =>
          (nw.isOnline /\ nw.onlineAt = Stamp(nwLast.at))
    /\ (nwWindow /\ \A i \in 1..Len(nwEvents) : nwEvents[i] = "change") =>
          nw.isOnline = nwOnLine

\* C19's case: an online event was handled, then time passed and an offline
\* event was handled, and time has passed since.
C19_Witness ==
    /\ nwLast.kind = "offline"
    /\ nwEvents = <<>>
    /\ ~nw.isOnline
    /\ nw.onlineAt \notin {NoStamp, Stamp(0)}
    /\ nw.offlineAt # nw.onlineAt
    /\ nwNow > nwLast.at

\* C27: with a navigator, onlineAt is defined and offlineAt undefined while
\* isOnline is true, and offlineAt is defined and onlineAt undefined while
\* isOnline is false.
C27_TimestampsAgreeWithOnline ==
    nwWindow =>
        IF nw.isOnline
        THEN nw.onlineAt # NoStamp /\ nw.offlineAt = NoStamp
        ELSE nw.offlineAt # NoStamp /\ nw.onlineAt = NoStamp

(***************************************************************************)
(*                        useCssVar: the properties                        *)
(***************************************************************************)

\* C6: a bound value that differs from the one written last has its write
\* queued; and when the second watcher's callback has just run with a
\* property name present, the target element's inline style has no such
\* property if the bound value is null or undefined, and has it with exactly
\* the bound value otherwise.
C6_WriteSetsOrRemoves ==
    /\ variable # cvWriteOld[1] => "write" \in SeqRange(cvJobs)
    /\ (cvLast.kind = "write" /\ cvProp # Null) =>
            cvInline[elRef][cvProp] = (IF variable \in {Null, Undefined} THEN "" ELSE variable)

\* C6's case: the bound value was set to null, and the write has removed a
\* property the element had.
C6_Witness ==
    /\ cvLast.kind = "write"
    /\ cvProp # Null
    /\ variable = Null
    /\ cvLast.before # ""
    /\ cvInline[elRef][cvProp] = ""

\* C20: when the first watcher's callback has run for a change of the
\* target element or of the property name, the inline styles are the ones
\* it found with the old property of the old element removed (nothing is
\* removed when there was no old name), and the bound value is the one
\* updateCssVar gives on the styles as they are after the removal.
C20_OldRemovedBeforeNewRead ==
    cvLast.kind = "read" =>
        /\ \A e \in CvElements, p \in CvProps :
              cvInline[e][p] = IF e = cvLast.old[1] /\ p = cvLast.old[2]
                               THEN ""
                               ELSE cvLast.found[e][p]
        /\ variable = updateCssVar(cvLast.cur, cvInline)

\* C20's case: the target changed from the root to an element that inherits
\* the property, the root's inline property was removed, and the value read
\* is not the one the styles gave before the removal.
C20_Witness ==
    /\ cvLast.kind = "read"
    /\ cvLast.old[1] = "root"
    /\ elRef = "e1"
    /\ cvProp # Null
    /\ cvLast.old[2] = cvProp
    /\ cvLast.found["root"][cvProp] = "red"
    /\ cvInline["root"][cvProp] = ""
    /\ variable # updateCssVar(cvLast.cur, cvLast.found)

\* a read (by the first watcher or the observer) that changed the bound
\* value, and a write that changed the inline styles
CvReadChanged(r) == r.kind \in {"read", "observe"} /\ r.changed

CvWriteChanged(r) == r.kind = "write" /\ r.changed

\* C21: after one change from outside (an assignment to the bound value, a
\* change of target or property name, a style mutation) at most four watcher
\* and observer callbacks run before nothing is left to run; and after any
\* changes, once a read has changed the bound value and the write that
\* follows has changed the element, no later read changes the bound value
\* again.
C21_NoFeedbackLoop ==
    LET changes == Len(SelectSeq(cvTrail, LAMBDA r : r.kind = "change"))
    IN  /\ changes = 1 => Len(cvTrail) - changes <= 4
        /\ ~\E i, j, k \in 1..Len(cvTrail) :
              /\ i < j /\ j < k
              /\ CvReadChanged(cvTrail[i])
              /\ CvWriteChanged(cvTrail[j])
              /\ CvReadChanged(cvTrail[k])

\* C21's case: in observe mode, after one change, a read changed the bound
\* value, the write it caused changed the element, the observer read again
\* without a change, and nothing is left to run.
C21_Witness ==
    /\ cvObserve
    /\ Len(SelectSeq(cvTrail, LAMBDA r : r.kind = "change")) = 1
    /\ Len(cvTrail) >= 4
    /\ \E i \in 1..(Len(cvTrail) - 2) :
          /\ CvReadChanged(cvTrail[i])
          /\ CvWriteChanged(cvTrail[i + 1])
          /\ cvTrail[i + 2] = CvRan("observe", FALSE)
    /\ cvMicro = <<>>
    /\ cvJobs = <<>>

\* C26: in observe mode, when the observer's callback has run for a style
\* mutation on the target, the bound value is the target's computed value of
\* the property (trimmed); when that value is empty, because the property
\* was removed or emptied, the bound value holds no value either.
C26_ObservedValueIsComputedValue ==
    (cvLast.kind = "observe" /\ cvProp # Null) =>
        LET value == Trim(getComputedStyle(cvInline, elRef, cvProp))
        IN  IF Truthy(value) THEN variable = value ELSE ~Truthy(variable)

(***************************************************************************)
(*                    useActiveElement: the properties                     *)
(***************************************************************************)

\* the focused element as the platform reports it, descended through every
\* nested shadow root that reports one
RECURSIVE DeepestFocused(_)
DeepestFocused(e) ==
    IF shadowRoot(e) # Null /\ ActiveIn(shadowRoot(e), aeFocus) # Null
    THEN DeepestFocused(ActiveIn(shadowRoot(e), aeFocus))
    ELSE e

PlatformFocused ==
    IF aeDeep THEN DeepestFocused(ActiveIn(Null, aeFocus)) ELSE ActiveIn(Null, aeFocus)

\* C7: right after a focus event, or a blur event with a null relatedTarget,
\* the tracked element is the platform's focused element (descended through
\* the nested shadow roots iff deep); right after a blur event with another
\* relatedTarget the tracked element is what it was.
C7_TracksFocusedElement ==
    /\ aeLast.kind \in {"focus", "blurNull"} => activeElement = PlatformFocused
    /\ aeLast.kind = "blurRelated" => activeElement = aeLast.before

(***************************************************************************)
(*                       useFavicon: the properties                        *)
(***************************************************************************)

\* the file extension of an icon: what follows the last dot of its file
\* name, without the query; none when the name has no dot
FileExtension(icon) == IF Len(icon.parts) > 1 THEN icon.parts[Len(icon.parts)] ELSE ""

\* the links of the head once the icon is applied as the claim says, with
\* the type given
AppliedAsStated(before, icon, type) ==
    LET matches == {k \in 1..Len(before) : RelContains(before[k].rel, fvRel)}
        href == fvBaseUrl \o IconString(icon)
    IN  IF matches = {}
        THEN Append(before, [rel |-> fvRel, href |-> href, type |-> type])
        ELSE [k \in 1..Len(before) |->
                 IF k \in matches
                 THEN [rel |-> before[k].rel, href |-> href, type |-> before[k].type]
                 ELSE before[k]]

\* C22: where there is a document, every change of the value to a new string
\* is applied: with no link matching rel one link is appended, with that rel,
\* the href baseUrl+icon and the type image/<file extension of the icon>;
\* otherwise every matching link gets that href and no link is created. The
\* binder creates at most one link.
C22_CreateOnceElseUpdateAll ==
    /\ fvCreated <= 1
    /\ (fvLast.kind = "skip" /\ fvLast.value.kind = "string") => fvLast.value = fvSeen
    /\ (fvDocument /\ fvLast.kind = "apply") =>
          fvHead = AppliedAsStated(fvLast.before, fvLast.value,
                                   "image/" \o FileExtension(fvLast.value))

====
